---- MODULE Spec2Model ----
(***************************************************************************)
(* Blog CMS: the category hierarchy engine, the comment, post, search,     *)
(* tag, settings, feed, SEO and auth handlers, as state machines over the  *)
(* relational store.                                                       *)
(*                                                                         *)
(* The store is the set of tables of db/schema; a table is a function from *)
(* the serial primary key to the row.  In the specifications of one        *)
(* request at a time every handler is one action, and `last` is the        *)
(* response in flight: the handler called, its input, the error it threw   *)
(* ("none" when it returned) and what it returned; the next request starts *)
(* once the response has been returned.  In the specifications of          *)
(* concurrent requests a handler is one action for each awaited statement, *)
(* and `calls` keeps, for each client, the statement its handler is at.    *)
(***************************************************************************)
EXTENDS Integers, Sequences, FiniteSets, TLC

(* ----------------------------- bounds ---------------------------------- *)
MaxCategoryId == 3
MaxFieldCategoryId == 2
MaxPostId == 2
MaxCommentId == 3
MaxClock == 1
MaxPagePostId == 3
MaxPage == 3
MaxLimit == 2
MaxTagId == 2
MaxUserId == 1
MaxWalkCategoryId == 3
MaxRaceCategoryId == 2

(* ------------------------ values of the schema ------------------------- *)
\* null and undefined of a numeric field (ids are serial, so >= 1)
Null == -1
Undefined == -2
\* null and undefined of a text field
NullText == "null"
UndefinedText == "undefined"

PostStatuses == {"draft", "published", "archived"}
CommentStatuses == {"pending", "approved", "spam", "rejected"}

\* JavaScript truthiness of a number | null | undefined
Truthy(v) == v \notin {Undefined, Null, 0}
\* `v || null` on a number
OrNull(v) == IF Truthy(v) THEN v ELSE Null
\* `v || null` on a string
OrNullText(v) == IF v \in {UndefinedText, NullText, ""} THEN NullText ELSE v

VARIABLES
    categories,      \* categoriesTable: id -> row
    nextCategoryId,  \* the serial sequence of categoriesTable.id
    posts,           \* postsTable: id -> row
    nextPostId,      \* the serial sequence of postsTable.id
    comments,        \* commentsTable: id -> row
    nextCommentId,   \* the serial sequence of commentsTable.id
    tags,            \* tagsTable: id -> row
    nextTagId,       \* the serial sequence of tagsTable.id
    postTags,        \* postTagsTable: the set of <<post_id, tag_id>> keys
    siteSettings,    \* siteSettingsTable: id -> row
    nextSettingsId,  \* the serial sequence of siteSettingsTable.id
    users,           \* usersTable: id -> row
    nextUserId,      \* the serial sequence of usersTable.id
    now,             \* the clock read by defaultNow() and new Date()
    last,            \* the response in flight: op, input, error, result
    calls,           \* the handlers of concurrent requests: per client, the
                     \* statement the handler is at and its local variables
    held             \* what the responses have given each client: the tokens
                     \* received and the users the client has logged in as

\* no call in progress
Idle == [op |-> "idle", error |-> "none"]

\* the clients whose requests the runtime serves at the same time
Clients == {"c1", "c2"}
\* a client without a request
NoCall == [pc |-> "idle"]
\* a client that has received nothing
NoSession == [tokens |-> {}, logins |-> {}]

vars == <<categories, nextCategoryId, posts, nextPostId, comments, nextCommentId,
          tags, nextTagId, postTags, siteSettings, nextSettingsId,
          users, nextUserId, now, last, calls, held>>

catVars == <<categories, nextCategoryId>>
postVars == <<posts, nextPostId>>
commentVars == <<comments, nextCommentId>>
tagVars == <<tags, nextTagId, postTags>>
settingsVars == <<siteSettings, nextSettingsId>>
userVars == <<users, nextUserId>>

Init ==
    /\ categories = <<>>
    /\ nextCategoryId = 1
    /\ posts = <<>>
    /\ nextPostId = 1
    /\ comments = <<>>
    /\ nextCommentId = 1
    /\ tags = <<>>
    /\ nextTagId = 1
    /\ postTags = {}
    /\ siteSettings = <<>>
    /\ nextSettingsId = 1
    /\ users = <<>>
    /\ nextUserId = 1
    /\ now = 0
    /\ last = Idle
    /\ calls = [c \in Clients |-> NoCall]
    /\ held = [c \in Clients |-> NoSession]

(* ----------------------------- helpers --------------------------------- *)
Min(S) == CHOOSE x \in S : \A y \in S : x <= y

RECURSIVE SortedSeq(_)
\* the rows of a select without ORDER BY, taken in ascending id order
SortedSeq(S) == IF S = {} THEN <<>> ELSE <<Min(S)>> \o SortedSeq(S \ {Min(S)})

Range(s) == {s[i] : i \in DOMAIN s}

\* table with one row added / removed
Insert(table, id, row) == [k \in DOMAIN table \cup {id} |-> IF k = id THEN row ELSE table[k]]
Delete(table, id) == [k \in DOMAIN table \ {id} |-> table[k]]

\* the procedure hands the response to the caller
Return ==
    /\ last # Idle
    /\ last' = Idle
    /\ UNCHANGED <<catVars, postVars, commentVars, tagVars, settingsVars, userVars, now, calls, held>>

Tick ==
    /\ now < MaxClock
    /\ now' = now + 1
    /\ UNCHANGED <<catVars, postVars, commentVars, tagVars, settingsVars, userVars, last, calls, held>>

(* --------------------------- categories -------------------------------- *)
getCategories(cats) == SortedSeq(DOMAIN cats)

getCategoryById(cats, id) == IF id \in DOMAIN cats THEN id ELSE Null

\* select ... where parent_id = currentId
DirectChildren(cats, currentId) ==
    SortedSeq({c \in DOMAIN cats : cats[c].parent_id = currentId})

RECURSIVE DescendantsLoop(_, _, _, _)
DescendantsLoop(cats, toProcess, processed, descendants) ==
    IF toProcess = <<>> THEN descendants
    ELSE LET currentId == Head(toProcess)
             rest == Tail(toProcess)
         IN  IF currentId \in processed
             THEN DescendantsLoop(cats, rest, processed, descendants)
             ELSE LET children == DirectChildren(cats, currentId)
                  IN  DescendantsLoop(cats, rest \o children,
                                      processed \cup {currentId},
                                      descendants \o children)

\* a walk that stops at the direct children
DirectChildrenOnly(cats, categoryId) == DirectChildren(cats, categoryId)

getCategoryDescendants(cats, categoryId) ==
    DescendantsLoop(cats, <<categoryId>>, {}, <<>>)

\* unique constraint of categoriesTable.slug: another row holds the slug
SlugTaken(cats, slug, self) ==
    \E c \in DOMAIN cats : c # self /\ cats[c].slug = slug

CategorySlugs == {"s1", "s2", "s3"}
CategoryTexts == {NullText, "x"}

CreateCategoryInputs ==
    [name : {"n1"},
     slug : CategorySlugs,
     description : {UndefinedText},
     parent_id : {Undefined, Null} \cup (0 .. MaxCategoryId),
     meta_title : {UndefinedText},
     meta_description : {UndefinedText}]

createCategory(input) ==
    IF Truthy(input.parent_id) /\ getCategoryById(categories, input.parent_id) = Null
    THEN /\ last' = [op |-> "createCategory", input |-> input,
                     error |-> "NotFound", result |-> Null]
         /\ UNCHANGED <<catVars, postVars, commentVars, tagVars, settingsVars, userVars, now, calls, held>>
    ELSE \* the serial advances on an insert the unique constraint refuses too
         /\ nextCategoryId' = nextCategoryId + 1
         /\ IF SlugTaken(categories, input.slug, Null)
            THEN /\ last' = [op |-> "createCategory", input |-> input,
                             error |-> "Conflict", result |-> Null]
                 /\ UNCHANGED categories
            ELSE /\ categories' = Insert(categories, nextCategoryId,
                        [name |-> input.name,
                         slug |-> input.slug,
                         description |-> OrNullText(input.description),
                         parent_id |-> OrNull(input.parent_id),
                         meta_title |-> OrNullText(input.meta_title),
                         meta_description |-> OrNullText(input.meta_description),
                         updated_at |-> now])
                 /\ last' = [op |-> "createCategory", input |-> input,
                             error |-> "none", result |-> nextCategoryId]
         /\ UNCHANGED <<postVars, commentVars, tagVars, settingsVars, userVars, now, calls, held>>

\* updates of the place in the tree and of the slug
UpdateCategoryInputs ==
    [id : 1 .. MaxCategoryId,
     name : {UndefinedText},
     slug : {UndefinedText, "s1"},
     description : {UndefinedText},
     parent_id : {Undefined, Null} \cup (0 .. MaxCategoryId),
     meta_title : {UndefinedText},
     meta_description : {UndefinedText}]

\* updates of the first category with every combination of present and
\* absent fields; the other categories stand by as parents and children
UpdateCategoryFieldInputs ==
    [id : {Min(1 .. MaxFieldCategoryId)},
     name : {UndefinedText, "n2"},
     slug : {UndefinedText, "s3"},
     description : {UndefinedText} \cup CategoryTexts,
     parent_id : {Undefined, Null} \cup (1 .. MaxFieldCategoryId),
     meta_title : {UndefinedText, "x"},
     meta_description : {UndefinedText, "x"}]

\* the checks without the comparison of the new parent with the category itself
UpdateCategoryCheckNoSelf(cats, input) ==
    IF getCategoryById(cats, input.id) = Null THEN "NotFound"
    ELSE IF input.parent_id # Undefined /\ input.parent_id # Null
    THEN IF getCategoryById(cats, input.parent_id) = Null THEN "NotFound"
         ELSE IF input.parent_id \in Range(getCategoryDescendants(cats, input.id))
         THEN "InvalidOperation"
         ELSE "none"
    ELSE "none"

\* the error of the checks before the update statement, "none" when they pass
UpdateCategoryCheck(cats, input) ==
    IF getCategoryById(cats, input.id) = Null THEN "NotFound"
    ELSE IF input.parent_id # Undefined /\ input.parent_id # Null
    THEN IF input.parent_id = input.id THEN "InvalidOperation"
         ELSE IF getCategoryById(cats, input.parent_id) = Null THEN "NotFound"
         ELSE IF input.parent_id \in Range(getCategoryDescendants(cats, input.id))
         THEN "InvalidOperation"
         ELSE "none"
    ELSE "none"

\* an update object that always carries description (`input.description ?? null`)
UpdateDataAlwaysDescription(row, input, time) ==
    [name |-> IF input.name # UndefinedText THEN input.name ELSE row.name,
     slug |-> IF input.slug # UndefinedText THEN input.slug ELSE row.slug,
     description |-> IF input.description # UndefinedText
                     THEN input.description ELSE NullText,
     parent_id |-> IF input.parent_id # Undefined THEN input.parent_id ELSE row.parent_id,
     meta_title |-> IF input.meta_title # UndefinedText
                    THEN input.meta_title ELSE row.meta_title,
     meta_description |-> IF input.meta_description # UndefinedText
                          THEN input.meta_description ELSE row.meta_description,
     updated_at |-> time]

\* the row after `set(updateData)`
UpdateData(row, input, time) ==
    [name |-> IF input.name # UndefinedText THEN input.name ELSE row.name,
     slug |-> IF input.slug # UndefinedText THEN input.slug ELSE row.slug,
     description |-> IF input.description # UndefinedText
                     THEN input.description ELSE row.description,
     parent_id |-> IF input.parent_id # Undefined THEN input.parent_id ELSE row.parent_id,
     meta_title |-> IF input.meta_title # UndefinedText
                    THEN input.meta_title ELSE row.meta_title,
     meta_description |-> IF input.meta_description # UndefinedText
                          THEN input.meta_description ELSE row.meta_description,
     updated_at |-> time]

updateCategory(input) ==
    LET check == UpdateCategoryCheck(categories, input)
        error == IF check # "none" THEN check
                 ELSE IF input.slug # UndefinedText
                         /\ SlugTaken(categories, input.slug, input.id)
                 THEN "Conflict"
                 ELSE "none"
    IN  /\ IF error = "none"
           THEN categories' = [categories EXCEPT
                    ![input.id] = UpdateData(categories[input.id], input, now)]
           ELSE UNCHANGED categories
        /\ last' = [op |-> "updateCategory", input |-> input, error |-> error,
                    result |-> IF error = "none" THEN input.id ELSE Null]
        /\ UNCHANGED <<nextCategoryId, postVars, commentVars, tagVars, settingsVars, userVars, now, calls, held>>

\* a delete that leaves the posts alone
DetachNoPosts(ps, id) == ps

\* update posts set category_id = null where category_id = id
DetachPosts(ps, id) ==
    [p \in DOMAIN ps |->
        IF ps[p].category_id = id THEN [ps[p] EXCEPT !.category_id = Null] ELSE ps[p]]

\* a delete that leaves the child categories alone
DetachNoChildren(cats, id) == cats

\* update categories set parent_id = null where parent_id = id
DetachChildren(cats, id) ==
    [c \in DOMAIN cats |->
        IF cats[c].parent_id = id THEN [cats[c] EXCEPT !.parent_id = Null] ELSE cats[c]]

deleteCategory(id) ==
    IF getCategoryById(categories, id) = Null
    THEN /\ last' = [op |-> "deleteCategory", input |-> id,
                     error |-> "NotFound", result |-> FALSE]
         /\ UNCHANGED <<catVars, postVars, commentVars, tagVars, settingsVars, userVars, now, calls, held>>
    ELSE /\ posts' = DetachPosts(posts, id)
         /\ categories' = Delete(DetachChildren(categories, id), id)
         /\ last' = [op |-> "deleteCategory", input |-> id,
                     error |-> "none", result |-> TRUE]
         /\ UNCHANGED <<nextCategoryId, nextPostId, commentVars, tagVars, settingsVars, userVars, now, calls, held>>

RECURSIVE TreeLoop(_, _, _, _)
\* the second loop of getCategoryTree over the rows still to place
TreeLoop(cats, todo, rootCategories, children) ==
    IF todo = <<>> THEN [roots |-> rootCategories, children |-> children]
    ELSE LET category == Head(todo)
             parent_id == cats[category].parent_id
         IN  IF parent_id = Null
             THEN TreeLoop(cats, Tail(todo), Append(rootCategories, category), children)
             ELSE IF parent_id \in DOMAIN children
             THEN TreeLoop(cats, Tail(todo), rootCategories,
                           [children EXCEPT ![parent_id] = Append(@, category)])
             ELSE TreeLoop(cats, Tail(todo), rootCategories, children)

\* roots: the returned array; children: the children array of every map entry
getCategoryTree(cats) ==
    LET allCategories == getCategories(cats)
        categoryMap == [c \in Range(allCategories) |-> <<>>]
    IN  TreeLoop(cats, allCategories, <<>>, categoryMap)

(* ------------------------------ posts ---------------------------------- *)
\* a row put into postsTable directly (db.insert), as the tests do
insertPost(title, status, category_id) ==
    /\ nextPostId <= MaxPostId
    /\ posts' = Insert(posts, nextPostId,
            [title |-> title, status |-> status, category_id |-> category_id,
             published_at |-> IF status = "published" THEN now ELSE Null])
    /\ nextPostId' = nextPostId + 1
    /\ last' = [op |-> "insertPost", error |-> "none"]
    /\ UNCHANGED <<catVars, commentVars, tagVars, settingsVars, userVars, now, calls, held>>

\* createPost stores nothing: it answers with a record made from the input
createPost(input) ==
    /\ last' = [op |-> "createPost", input |-> input, error |-> "none",
                result |-> [id |-> 1,
                            title |-> input.title,
                            status |-> input.status,
                            category_id |-> OrNull(input.category_id),
                            published_at |-> OrNull(input.published_at)]]
    /\ UNCHANGED <<catVars, postVars, commentVars, tagVars, settingsVars, userVars, now, calls, held>>

CreatePostInputs ==
    [title : {"t1", "t2"},
     status : PostStatuses,
     category_id : {Undefined, 1},
     published_at : {Undefined, Null}]

\* publishPost reads and writes no table: it answers with a fixed record
publishPost(id) ==
    /\ last' = [op |-> "publishPost", input |-> id, error |-> "none",
                result |-> [id |-> id,
                            title |-> "Published Post",
                            status |-> "published",
                            category_id |-> Null,
                            published_at |-> now]]
    /\ UNCHANGED <<catVars, postVars, commentVars, tagVars, settingsVars, userVars, now, calls, held>>

archivePost(id) ==
    /\ last' = [op |-> "archivePost", input |-> id, error |-> "none",
                result |-> [id |-> id,
                            title |-> "Archived Post",
                            status |-> "archived",
                            category_id |-> Null,
                            published_at |-> Null]]
    /\ UNCHANGED <<catVars, postVars, commentVars, tagVars, settingsVars, userVars, now, calls, held>>

(* ----------------------------- comments -------------------------------- *)
\* status is no field of createCommentInputSchema: a caller may send it all the same
CreateCommentInputs ==
    [post_id : 0 .. MaxPostId,
     author_name : {"a1"},
     author_website : {UndefinedText, "w1"},
     content : {"c1"},
     parent_id : {Undefined, Null} \cup (0 .. MaxCommentId),
     status : {UndefinedText, "approved"}]

\* a status taken from the input when it holds one
StatusFromInput(input) ==
    IF input.status # UndefinedText THEN input.status ELSE "pending"

\* the status of the inserted row
InsertedStatus(input) == "pending"

createComment(input) ==
    IF input.post_id \notin DOMAIN posts
    THEN /\ last' = [op |-> "createComment", input |-> input,
                     error |-> "NotFound", result |-> Null]
         /\ UNCHANGED <<catVars, postVars, commentVars, tagVars, settingsVars, userVars, now, calls, held>>
    ELSE IF Truthy(input.parent_id) /\ input.parent_id \notin DOMAIN comments
    THEN /\ last' = [op |-> "createComment", input |-> input,
                     error |-> "NotFound", result |-> Null]
         /\ UNCHANGED <<catVars, postVars, commentVars, tagVars, settingsVars, userVars, now, calls, held>>
    ELSE /\ comments' = Insert(comments, nextCommentId,
                [post_id |-> input.post_id,
                 author_name |-> input.author_name,
                 author_website |-> OrNullText(input.author_website),
                 content |-> input.content,
                 status |-> InsertedStatus(input),
                 parent_id |-> OrNull(input.parent_id)])
         /\ nextCommentId' = nextCommentId + 1
         /\ last' = [op |-> "createComment", input |-> input,
                     error |-> "none", result |-> nextCommentId]
         /\ UNCHANGED <<catVars, postVars, tagVars, settingsVars, userVars, now, calls, held>>

\* the record the moderation handlers answer with; they touch no table
ModerationAnswer(id, author_name, content, status) ==
    [id |-> id, post_id |-> 1, author_name |-> author_name,
     author_website |-> NullText, content |-> content,
     status |-> status, parent_id |-> Null]

updateCommentStatus(input) ==
    /\ last' = [op |-> "updateCommentStatus", input |-> input, error |-> "none",
                result |-> ModerationAnswer(input.id, "Commenter",
                                            "Comment content", input.status)]
    /\ UNCHANGED <<catVars, postVars, commentVars, tagVars, settingsVars, userVars, now, calls, held>>

approveComment(id) ==
    /\ last' = [op |-> "approveComment", input |-> id, error |-> "none",
                result |-> ModerationAnswer(id, "Approved Commenter",
                                            "Approved comment content", "approved")]
    /\ UNCHANGED <<catVars, postVars, commentVars, tagVars, settingsVars, userVars, now, calls, held>>

rejectComment(id) ==
    /\ last' = [op |-> "rejectComment", input |-> id, error |-> "none",
                result |-> ModerationAnswer(id, "Rejected Commenter",
                                            "Rejected comment content", "rejected")]
    /\ UNCHANGED <<catVars, postVars, commentVars, tagVars, settingsVars, userVars, now, calls, held>>

markAsSpam(id) ==
    /\ last' = [op |-> "markAsSpam", input |-> id, error |-> "none",
                result |-> ModerationAnswer(id, "Spam Commenter",
                                            "Spam comment content", "spam")]
    /\ UNCHANGED <<catVars, postVars, commentVars, tagVars, settingsVars, userVars, now, calls, held>>

deleteComment(id) ==
    /\ last' = [op |-> "deleteComment", input |-> id, error |-> "none",
                result |-> TRUE]
    /\ UNCHANGED <<catVars, postVars, commentVars, tagVars, settingsVars, userVars, now, calls, held>>

(* ------------------------------ search --------------------------------- *)
\* the text of a searched column or of a query is a sequence of characters
NullChars == <<"NULL">>
UndefinedChars == <<"UNDEFINED">>
\* tag_ids left out of the input
UndefinedIds == <<Undefined>>

Lower(c) == IF c = "A" THEN "a" ELSE IF c = "B" THEN "b" ELSE c

RECURSIVE LikeMatch(_, _)
\* text ILIKE pattern: % stands for any run of characters, _ for any one
\* character, a letter for itself in either case
LikeMatch(text, pattern) ==
    IF pattern = <<>> THEN text = <<>>
    ELSE IF Head(pattern) = "%"
         THEN \/ LikeMatch(text, Tail(pattern))
              \/ text # <<>> /\ LikeMatch(Tail(text), pattern)
         ELSE /\ text # <<>>
              /\ Head(pattern) = "_" \/ Lower(Head(text)) = Lower(Head(pattern))
              /\ LikeMatch(Tail(text), Tail(pattern))

\* a NULL column matches no pattern
ilike(column, pattern) == column # NullChars /\ LikeMatch(column, pattern)

\* select post_id from post_tags where tag_id in (tag_ids)
TagSubquery(pts, tag_ids) == {pt[1] : pt \in {x \in pts : x[2] \in Range(tag_ids)}}

\* a filter on the tags that lets no post through when tag_ids is empty
getPostsWhereEmptyTagsNone(ps, pts, input, p) ==
    /\ input.query \notin {UndefinedChars, <<>>} =>
          LET pattern == <<"%">> \o input.query \o <<"%">>
          IN  \/ ilike(ps[p].title, pattern)
              \/ ilike(ps[p].excerpt, pattern)
              \/ ilike(ps[p].content, pattern)
    /\ Truthy(input.category_id) => ps[p].category_id = input.category_id
    /\ Truthy(input.author_id) => ps[p].author_id = input.author_id
    /\ input.status # UndefinedText => ps[p].status = input.status
    /\ input.tag_ids # UndefinedIds => p \in TagSubquery(pts, input.tag_ids)

\* the WHERE condition of getPosts, on the post p: the conditions pushed are
\* those of the input fields that are truthy
getPostsWhere(ps, pts, input, p) ==
    /\ input.query \notin {UndefinedChars, <<>>} =>
          LET pattern == <<"%">> \o input.query \o <<"%">>
          IN  \/ ilike(ps[p].title, pattern)
              \/ ilike(ps[p].excerpt, pattern)
              \/ ilike(ps[p].content, pattern)
    /\ Truthy(input.category_id) => ps[p].category_id = input.category_id
    /\ Truthy(input.author_id) => ps[p].author_id = input.author_id
    /\ input.status # UndefinedText => ps[p].status = input.status
    /\ (input.tag_ids # UndefinedIds /\ Len(input.tag_ids) > 0) =>
          p \in TagSubquery(pts, input.tag_ids)

\* a WHERE condition that does not look at the excerpt
searchPostsWhereNoExcerpt(ps, pts, input, p) ==
    /\ input.query \notin {UndefinedChars, <<>>} =>
          LET searchPattern == <<"%">> \o input.query \o <<"%">>
          IN  \/ ilike(ps[p].title, searchPattern)
              \/ ilike(ps[p].content, searchPattern)
    /\ Truthy(input.category_id) => ps[p].category_id = input.category_id
    /\ Truthy(input.author_id) => ps[p].author_id = input.author_id
    /\ input.status # UndefinedText => ps[p].status = input.status
    /\ (input.tag_ids # UndefinedIds /\ Len(input.tag_ids) > 0) =>
          p \in TagSubquery(pts, input.tag_ids)

\* the WHERE condition of searchPosts
searchPostsWhere(ps, pts, input, p) ==
    /\ input.query \notin {UndefinedChars, <<>>} =>
          LET searchPattern == <<"%">> \o input.query \o <<"%">>
          IN  \/ ilike(ps[p].title, searchPattern)
              \/ ilike(ps[p].content, searchPattern)
              \/ ilike(ps[p].excerpt, searchPattern)
    /\ Truthy(input.category_id) => ps[p].category_id = input.category_id
    /\ Truthy(input.author_id) => ps[p].author_id = input.author_id
    /\ input.status # UndefinedText => ps[p].status = input.status
    /\ (input.tag_ids # UndefinedIds /\ Len(input.tag_ids) > 0) =>
          p \in TagSubquery(pts, input.tag_ids)

\* ORDER BY: a NULL sorts as larger than every value
Before(a, b) == a # Null /\ (b = Null \/ a < b)

Ordered(ps, rows, sort_by, sort_order) ==
    \A i, j \in DOMAIN rows : i < j =>
        IF sort_order = "desc"
        THEN ~Before(ps[rows[i]][sort_by], ps[rows[j]][sort_by])
        ELSE ~Before(ps[rows[j]][sort_by], ps[rows[i]][sort_by])

\* the orders in which select ... order by may deliver the rows S: the rows
\* of equal sort column come in any order
Orderings(ps, S, sort_by, sort_order) ==
    {rows \in [1 .. Cardinality(S) -> S] :
        Range(rows) = S /\ Ordered(ps, rows, sort_by, sort_order)}

\* a page cut without the offset
WindowNoOffset(rows, offset, limit) == SubSeq(rows, 1, Min({limit, Len(rows)}))

\* .limit(limit).offset(offset)
Window(rows, offset, limit) ==
    SubSeq(rows, offset + 1, Min({offset + limit, Len(rows)}))

\* a page count rounded down
Floor(total, limit) == total \div limit

\* Math.ceil(total / limit)
Ceil(total, limit) ==
    IF total % limit = 0 THEN total \div limit ELSE total \div limit + 1

\* the answer of both search handlers for the matching posts, delivered as rows
PostsResponse(input, matching, rows) ==
    LET total == Cardinality(matching)
        offset == (input.page - 1) * input.limit
        total_pages == Ceil(total, input.limit)
    IN  [posts |-> Window(rows, offset, input.limit),
         pagination |-> [page |-> input.page,
                         limit |-> input.limit,
                         total |-> total,
                         total_pages |-> total_pages,
                         has_prev |-> input.page > 1,
                         has_next |-> input.page < total_pages]]

getPosts(input) ==
    LET matching == {p \in DOMAIN posts : getPostsWhere(posts, postTags, input, p)}
    IN  \E rows \in Orderings(posts, matching, input.sort_by, input.sort_order) :
            /\ last' = [op |-> "getPosts", input |-> input, error |-> "none",
                        result |-> PostsResponse(input, matching, rows)]
            /\ UNCHANGED <<catVars, postVars, commentVars, tagVars, settingsVars, userVars, now, calls, held>>

searchPosts(input) ==
    LET matching == {p \in DOMAIN posts : searchPostsWhere(posts, postTags, input, p)}
    IN  \E rows \in Orderings(posts, matching, input.sort_by, input.sort_order) :
            /\ last' = [op |-> "searchPosts", input |-> input, error |-> "none",
                        result |-> PostsResponse(input, matching, rows)]
            /\ UNCHANGED <<catVars, postVars, commentVars, tagVars, settingsVars, userVars, now, calls, held>>

\* a full row put into postsTable directly (db.insert)
insertPostRow(row) ==
    /\ posts' = Insert(posts, nextPostId, row)
    /\ nextPostId' = nextPostId + 1
    /\ last' = [op |-> "insertPostRow", error |-> "none"]
    /\ UNCHANGED <<catVars, commentVars, tagVars, settingsVars, userVars, now, calls, held>>

\* a row put into postTagsTable directly; the primary key refuses a second one
insertPostTag(post_id, tag_id) ==
    /\ <<post_id, tag_id>> \notin postTags
    /\ postTags' = postTags \cup {<<post_id, tag_id>>}
    /\ last' = [op |-> "insertPostTag", error |-> "none"]
    /\ UNCHANGED <<catVars, postVars, commentVars, tags, nextTagId, settingsVars, userVars, now, calls, held>>

\* the tags of the search scenarios
SearchTagIds == {1, 2}

\* posts that differ in what the filters look at
SearchPostRows ==
    [title : {<<"a">>},
     excerpt : {NullChars, <<"b">>},
     content : {<<"c">>},
     status : {"published"},
     author_id : {1},
     category_id : {Null, 1},
     created_at : {0},
     published_at : {0}]

\* inputs that differ in the filters they hold; page, limit and sort are the
\* defaults of searchPostsInputSchema
SearchFilterInputs ==
    [query : {UndefinedChars, <<"B">>, <<"_">>},
     category_id : {Undefined, 0, 1},
     author_id : {Undefined, 2},
     status : {UndefinedText, "draft"},
     tag_ids : {UndefinedIds, <<>>, <<1>>, <<1, 2>>},
     page : {1},
     limit : {10},
     sort_by : {"created_at"},
     sort_order : {"desc"}]

\* posts that differ in what the sort and the status filter look at
PagePostRows ==
    {[title |-> <<"a">>, excerpt |-> NullChars, content |-> <<"c">>,
      status |-> s, author_id |-> 1, category_id |-> Null,
      created_at |-> c,
      published_at |-> IF s = "published" THEN c ELSE Null] :
        s \in {"draft", "published"}, c \in 0 .. MaxClock}

\* inputs that differ in the page asked for and in the sort
PageInputs ==
    [query : {UndefinedChars},
     category_id : {Undefined},
     author_id : {Undefined},
     status : {UndefinedText, "published"},
     tag_ids : {UndefinedIds},
     page : 1 .. MaxPage,
     limit : 1 .. MaxLimit,
     sort_by : {"created_at", "published_at"},
     sort_order : {"asc", "desc"}]

(* ------------------------------- tags ---------------------------------- *)
CreateTagInputs ==
    [name : {"g1"},
     slug : {"t1", "t2"},
     description : {UndefinedText}]

\* tagsTable.slug is unique
TagSlugTaken(tgs, slug) == \E t \in DOMAIN tgs : tgs[t].slug = slug

createTag(input) ==
    /\ nextTagId' = nextTagId + 1
    /\ IF TagSlugTaken(tags, input.slug)
       THEN /\ last' = [op |-> "createTag", input |-> input,
                        error |-> "Conflict", result |-> Null]
            /\ UNCHANGED tags
       ELSE /\ tags' = Insert(tags, nextTagId,
                   [name |-> input.name,
                    slug |-> input.slug,
                    description |-> OrNullText(input.description)])
            /\ last' = [op |-> "createTag", input |-> input,
                        error |-> "none", result |-> nextTagId]
    /\ UNCHANGED <<catVars, postVars, commentVars, postTags, settingsVars, userVars, now, calls, held>>

\* a delete that leaves the junction rows of the tag
PostTagsKept(pts, id) == pts

\* delete from post_tags where tag_id = id
PostTagsWithout(pts, id) == {pt \in pts : pt[2] # id}

deleteTag(id) ==
    /\ postTags' = PostTagsWithout(postTags, id)
    /\ tags' = Delete(tags, id)
    /\ last' = [op |-> "deleteTag", input |-> id, error |-> "none",
                result |-> id \in DOMAIN tags]
    /\ UNCHANGED <<catVars, postVars, commentVars, nextTagId, settingsVars, userVars, now, calls, held>>

(* --------------------------- site settings ----------------------------- *)
\* the fields of the settings row that stand for the rest: a text that may
\* not be empty, a text that may, a number and a boolean (as "true"/"false")
SettingFields == {"site_title", "site_description", "posts_per_page", "comments_enabled"}

UpdateSiteSettingsInputs ==
    [site_title : {UndefinedText, "T"},
     site_description : {UndefinedText, "", "D"},
     posts_per_page : {Undefined, 5},
     comments_enabled : {UndefinedText, "false"}]

defaultSettings ==
    [site_title |-> "My Blog",
     site_description |-> "A blog powered by our CMS",
     posts_per_page |-> 10,
     comments_enabled |-> "true"]

\* `v || d` on a string
OrText(v, d) == IF v \in {UndefinedText, ""} THEN d ELSE v
\* `v || d` on a number
OrNumber(v, d) == IF Truthy(v) THEN v ELSE d
\* `v ?? d`
Coalesce(v, d) == IF v = UndefinedText THEN d ELSE v

\* select ... limit 1: the id of a row, or Null
getSiteSettingsRow(settings) ==
    IF DOMAIN settings = {} THEN Null ELSE Min(DOMAIN settings)

\* the values of the row updateSiteSettings inserts
CreatedSettings(input, time) ==
    [site_title |-> OrText(input.site_title, "My Blog"),
     site_description |-> OrText(input.site_description, "A blog powered by our CMS"),
     posts_per_page |-> OrNumber(input.posts_per_page, 10),
     comments_enabled |-> Coalesce(input.comments_enabled, "true"),
     updated_at |-> time]

\* the row after .set(updateData)
PatchedSettings(row, input, time) ==
    [site_title |-> IF input.site_title # UndefinedText
                    THEN input.site_title ELSE row.site_title,
     site_description |-> IF input.site_description # UndefinedText
                          THEN input.site_description ELSE row.site_description,
     posts_per_page |-> IF input.posts_per_page # Undefined
                        THEN input.posts_per_page ELSE row.posts_per_page,
     comments_enabled |-> IF input.comments_enabled # UndefinedText
                          THEN input.comments_enabled ELSE row.comments_enabled,
     updated_at |-> time]

\* siteSettingsTable after updateSiteSettings: the update has no WHERE
SettingsAfterUpdate(settings, nextId, input, time) ==
    IF getSiteSettingsRow(settings) = Null
    THEN Insert(settings, nextId, CreatedSettings(input, time))
    ELSE [k \in DOMAIN settings |-> PatchedSettings(settings[k], input, time)]

\* siteSettingsTable after resetToDefaults
SettingsAfterReset(settings, nextId, time) ==
    LET row == [site_title |-> defaultSettings.site_title,
                site_description |-> defaultSettings.site_description,
                posts_per_page |-> defaultSettings.posts_per_page,
                comments_enabled |-> defaultSettings.comments_enabled,
                updated_at |-> time]
    IN  IF getSiteSettingsRow(settings) = Null
        THEN Insert(settings, nextId, row)
        ELSE [k \in DOMAIN settings |-> row]

\* result[0] of .returning()
FirstRow(settings) ==
    LET id == Min(DOMAIN settings)
    IN  [id |-> id, row |-> settings[id]]

getSiteSettings ==
    /\ last' = [op |-> "getSiteSettings", error |-> "none",
                result |-> IF getSiteSettingsRow(siteSettings) = Null
                           THEN [id |-> Null]
                           ELSE FirstRow(siteSettings)]
    /\ UNCHANGED <<catVars, postVars, commentVars, tagVars, settingsVars, userVars, now, calls, held>>

updateSiteSettings(input) ==
    /\ siteSettings' = SettingsAfterUpdate(siteSettings, nextSettingsId, input, now)
    /\ nextSettingsId' = IF getSiteSettingsRow(siteSettings) = Null
                         THEN nextSettingsId + 1 ELSE nextSettingsId
    /\ last' = [op |-> "updateSiteSettings", input |-> input, error |-> "none",
                result |-> FirstRow(siteSettings')]
    /\ UNCHANGED <<catVars, postVars, commentVars, tagVars, userVars, now, calls, held>>

resetToDefaults ==
    /\ siteSettings' = SettingsAfterReset(siteSettings, nextSettingsId, now)
    /\ nextSettingsId' = IF getSiteSettingsRow(siteSettings) = Null
                         THEN nextSettingsId + 1 ELSE nextSettingsId
    /\ last' = [op |-> "resetToDefaults", error |-> "none",
                result |-> FirstRow(siteSettings')]
    /\ UNCHANGED <<catVars, postVars, commentVars, tagVars, userVars, now, calls, held>>

(* ------------------------------- users --------------------------------- *)
CreateUserInputs ==
    {[email |-> "e1", username |-> "u1", password |-> "p1", role |-> "author"],
     [email |-> "e2", username |-> "u2", password |-> "p1", role |-> "author"]}

\* usersTable.email and usersTable.username are unique
UserTaken(us, input) ==
    \E u \in DOMAIN us : us[u].email = input.email \/ us[u].username = input.username

createUser(input) ==
    /\ nextUserId' = nextUserId + 1
    /\ IF UserTaken(users, input)
       THEN /\ last' = [op |-> "createUser", input |-> input,
                        error |-> "Conflict", result |-> Null]
            /\ UNCHANGED users
       ELSE /\ users' = Insert(users, nextUserId,
                   [email |-> input.email, username |-> input.username,
                    password_hash |-> <<"hashed_", input.password>>,
                    role |-> input.role, is_active |-> TRUE])
            /\ last' = [op |-> "createUser", input |-> input,
                        error |-> "none", result |-> nextUserId]
    /\ UNCHANGED <<catVars, postVars, commentVars, tagVars, settingsVars, now, calls, held>>

\* the row of the user goes; the posts of the user stay as they are
deleteUser(id) ==
    /\ users' = Delete(users, id)
    /\ last' = [op |-> "deleteUser", input |-> id, error |-> "none",
                result |-> id \in DOMAIN users]
    /\ UNCHANGED <<catVars, postVars, commentVars, tagVars, settingsVars, nextUserId, now, calls, held>>

(* ------------------------------- feeds --------------------------------- *)
\* A feed is a sequence of tokens: a character of a text of the store is a
\* one-character string, a piece of the template of the feed is a longer one.
RECURSIVE ReplaceAll(_, _, _)
\* text.replace(/c/g, replacement)
ReplaceAll(text, c, replacement) ==
    IF text = <<>> THEN <<>>
    ELSE (IF Head(text) = c THEN replacement ELSE <<Head(text)>>)
            \o ReplaceAll(Tail(text), c, replacement)

escapeXml(text) ==
    ReplaceAll(ReplaceAll(ReplaceAll(ReplaceAll(ReplaceAll(text,
        "&", <<"&", "a", "m", "p", ";">>),
        "<", <<"&", "l", "t", ";">>),
        ">", <<"&", "g", "t", ";">>),
        "\"", <<"&", "q", "u", "o", "t", ";">>),
        "'", <<"&", "#", "3", "9", ";">>)

\* posts join users where status = 'published'
getPublishedPosts(ps, us) ==
    {p \in DOMAIN ps : ps[p].status = "published" /\ ps[p].author_id \in DOMAIN us}

\* posts join users join categories where published and category_id = categoryId
getPostsByCategory(ps, us, cats, categoryId) ==
    {p \in getPublishedPosts(ps, us) :
        ps[p].category_id \in DOMAIN cats /\ ps[p].category_id = categoryId}

\* posts join users join post_tags join tags where published and tag_id = tagId
getPostsByTag(ps, us, tgs, pts, tagId) ==
    {p \in getPublishedPosts(ps, us) : <<p, tagId>> \in pts /\ tagId \in DOMAIN tgs}

\* posts join users where published and author_id = authorId
getPostsByAuthor(ps, us, authorId) ==
    {p \in getPublishedPosts(ps, us) : ps[p].author_id = authorId}

\* post.excerpt || (the content, cut after 147 characters when longer)
ItemDescription(post) ==
    IF post.excerpt \notin {NullChars, <<>>} THEN post.excerpt
    ELSE IF Len(post.content) > 147
         THEN SubSeq(post.content, 1, 147) \o <<".", ".", ".">>
         ELSE post.content

\* one <item> of an RSS feed; category holds the <category> element, if any
RssItem(post, author, category) ==
    <<"<item>", "<title>">> \o escapeXml(post.title)
    \o <<"</title>", "<description>">> \o escapeXml(ItemDescription(post))
    \o <<"</description>", "<content:encoded>", "<![CDATA[">> \o post.content
    \o <<"]]>", "</content:encoded>", "<link/>", "<guid/>", "<author>">>
    \o escapeXml(<<author.email>>) \o <<" (">> \o escapeXml(<<author.username>>)
    \o <<")", "</author>">> \o category \o <<"<pubDate/>", "</item>">>

\* one <entry> of an Atom feed
AtomEntry(post, author) ==
    <<"<entry>", "<title>">> \o escapeXml(post.title)
    \o <<"</title>", "<link/>", "<id/>", "<published/>", "<updated/>",
         "<author>", "<name>">> \o escapeXml(<<author.username>>)
    \o <<"</name>", "<email>">> \o escapeXml(<<author.email>>)
    \o <<"</email>", "</author>", "<summary>">> \o escapeXml(ItemDescription(post))
    \o <<"</summary>", "<content type=html>", "<![CDATA[">> \o post.content
    \o <<"]]>", "</content>", "</entry>">>

RECURSIVE RssItems(_, _, _, _)
\* posts.map(post => item).join
RssItems(ps, us, rows, category) ==
    IF rows = <<>> THEN <<>>
    ELSE RssItem(ps[Head(rows)], us[ps[Head(rows)].author_id], category)
            \o RssItems(ps, us, Tail(rows), category)

RECURSIVE AtomEntries(_, _, _)
AtomEntries(ps, us, rows) ==
    IF rows = <<>> THEN <<>>
    ELSE AtomEntry(ps[Head(rows)], us[ps[Head(rows)].author_id])
            \o AtomEntries(ps, us, Tail(rows))

RssDocument(title, description, items) ==
    <<"<rss>", "<channel>", "<title>">> \o escapeXml(title)
    \o <<"</title>", "<description>">> \o escapeXml(description)
    \o <<"</description>", "<link/>", "<language/>", "<lastBuildDate/>", "<generator/>">>
    \o items \o <<"</channel>", "</rss>">>

AtomDocument(title, description, entries) ==
    <<"<feed>", "<title>">> \o escapeXml(title)
    \o <<"</title>", "<link/>", "<link rel=self/>", "<updated/>", "<id/>", "<subtitle>">>
    \o escapeXml(description)
    \o <<"</subtitle>", "<generator/>">> \o entries \o <<"</feed>">>

\* .orderBy(desc(postsTable.published_at)).limit(20)
FeedRows(ps, matching) ==
    {Window(rows, 0, 20) : rows \in Orderings(ps, matching, "published_at", "desc")}

generateRSSFeed ==
    \E rows \in FeedRows(posts, getPublishedPosts(posts, users)) :
        /\ last' = [op |-> "generateRSSFeed", error |-> "none",
                    result |-> RssDocument(<<"Blog RSS Feed">>, <<"Latest blog posts">>,
                                           RssItems(posts, users, rows, <<>>))]
        /\ UNCHANGED <<catVars, postVars, commentVars, tagVars, settingsVars, userVars, now, calls, held>>

generateAtomFeed ==
    \E rows \in FeedRows(posts, getPublishedPosts(posts, users)) :
        /\ last' = [op |-> "generateAtomFeed", error |-> "none",
                    result |-> AtomDocument(<<"Blog Atom Feed">>, <<"Latest blog posts">>,
                                            AtomEntries(posts, users, rows))]
        /\ UNCHANGED <<catVars, postVars, commentVars, tagVars, settingsVars, userVars, now, calls, held>>

\* a feed of the posts of a scope: no post found is an error
ScopedFeed(op, id, matching, title, description, category) ==
    /\ IF matching = {}
       THEN last' = [op |-> op, input |-> id, error |-> "NotFound", result |-> <<>>]
       ELSE \E rows \in FeedRows(posts, matching) :
                last' = [op |-> op, input |-> id, error |-> "none",
                         result |-> RssDocument(title, description,
                                                RssItems(posts, users, rows, category))]
    /\ UNCHANGED <<catVars, postVars, commentVars, tagVars, settingsVars, userVars, now, calls, held>>

generateCategoryRSSFeed(categoryId) ==
    LET matching == getPostsByCategory(posts, users, categories, categoryId)
        categoryName == categories[categoryId].name
    IN  ScopedFeed("generateCategoryRSSFeed", categoryId, matching,
                   <<categoryName, " - Category RSS Feed">>,
                   <<"Posts from ", categoryName, " category">>,
                   <<"<category>">> \o escapeXml(<<categoryName>>) \o <<"</category>">>)

generateTagRSSFeed(tagId) ==
    LET matching == getPostsByTag(posts, users, tags, postTags, tagId)
        tagName == tags[tagId].name
    IN  ScopedFeed("generateTagRSSFeed", tagId, matching,
                   <<tagName, " - Tag RSS Feed">>,
                   <<"Posts tagged with ", tagName>>,
                   <<"<category>">> \o escapeXml(<<tagName>>) \o <<"</category>">>)

generateAuthorRSSFeed(authorId) ==
    LET matching == getPostsByAuthor(posts, users, authorId)
        authorName == users[authorId].username
    IN  ScopedFeed("generateAuthorRSSFeed", authorId, matching,
                   <<authorName, " - Author RSS Feed">>,
                   <<"Posts by ", authorName>>,
                   <<>>)

\* posts that differ in what the scoped feeds look at
FeedPostRows ==
    [title : {<<"a">>},
     excerpt : {NullChars},
     content : {<<"c">>},
     status : PostStatuses,
     author_id : DOMAIN users,
     category_id : {Null} \cup DOMAIN categories,
     created_at : {0},
     published_at : {0}]

\* posts that differ in the characters of their texts
FeedTexts == {<<"a">>, <<"<", "&">>, <<"\"", ">">>,
              <<"A", " ", "<", "b", ">", "&", "a", "m", "p", ";", "<", "/", "b", ">", " ", "B">>}

FeedTextPostRows ==
    [title : FeedTexts,
     excerpt : {NullChars, <<"&">>},
     content : {<<"c">>, <<"<", "&">>, <<"]", "]", ">">>},
     status : {"draft", "published"},
     author_id : DOMAIN users,
     category_id : {Null},
     created_at : {0},
     published_at : {0}]

(* -------------------------------- seo ---------------------------------- *)
\* a text of n characters
TextOfLength(n) == [i \in 1 .. n |-> "x"]

\* !text of JavaScript: null and the empty string
Falsy(text) == text \in {NullChars, <<>>}

\* a title penalty that takes 30 characters for short
TitlePenaltyInclusive(post) ==
    IF Falsy(post.title) \/ Len(post.title) = 0 THEN 20
    ELSE IF Len(post.title) <= 30 THEN 5
    ELSE IF Len(post.title) > 60 THEN 3
    ELSE 0

\* what each analysis of analyzePostSEO takes from the score
TitlePenalty(post) ==
    IF Falsy(post.title) \/ Len(post.title) = 0 THEN 20
    ELSE IF Len(post.title) < 30 THEN 5
    ELSE IF Len(post.title) > 60 THEN 3
    ELSE 0

MetaDescriptionPenalty(post) ==
    IF Falsy(post.meta_description)
    THEN IF Falsy(post.excerpt) THEN 15 ELSE 5
    ELSE IF Len(post.meta_description) < 120 THEN 3
    ELSE IF Len(post.meta_description) > 160 THEN 8
    ELSE 0

ContentPenalty(post) ==
    IF Falsy(post.content) \/ Len(post.content) = 0 THEN 25
    ELSE IF Len(post.content) < 300 THEN 10
    ELSE 0

SlugPenalty(post) ==
    IF Falsy(post.slug) \/ Len(post.slug) = 0 THEN 15
    ELSE IF \E i \in DOMAIN post.slug : post.slug[i] = "_" THEN 2
    ELSE 0

MetaTitlePenalty(post) == IF Falsy(post.meta_title) THEN 5 ELSE 0

\* Math.max(0, score)
AtLeastZero(score) == IF score < 0 THEN 0 ELSE score

SEOScore(post) ==
    AtLeastZero(100 - TitlePenalty(post) - MetaDescriptionPenalty(post)
                    - ContentPenalty(post) - SlugPenalty(post) - MetaTitlePenalty(post))

\* issues.push(...) when the condition holds
Pushed(condition, message) == IF condition THEN <<message>> ELSE <<>>

SEOIssues(post) ==
    Pushed(TitlePenalty(post) = 20, "Missing title")
    \o Pushed(Falsy(post.meta_description) /\ Falsy(post.excerpt),
              "Missing meta description and excerpt")
    \o Pushed(~Falsy(post.meta_description) /\ Len(post.meta_description) > 160,
              "Meta description too long")
    \o Pushed(ContentPenalty(post) = 25, "Missing content")
    \o Pushed(SlugPenalty(post) = 15, "Missing URL slug")

SEORecommendations(post) ==
    Pushed(TitlePenalty(post) = 5, "Consider making title longer")
    \o Pushed(TitlePenalty(post) = 3, "Title may be too long")
    \o Pushed(Falsy(post.meta_description) /\ ~Falsy(post.excerpt),
              "Add custom meta description")
    \o Pushed(~Falsy(post.meta_description) /\ Len(post.meta_description) < 120,
              "Meta description could be longer")
    \o Pushed(ContentPenalty(post) = 10, "Content is quite short")
    \o Pushed(SlugPenalty(post) = 2, "Use hyphens instead of underscores")
    \o Pushed(MetaTitlePenalty(post) = 5, "Add custom meta title")
    \o Pushed(Falsy(post.canonical_url), "Consider adding canonical URL")

analyzePostSEO(post) ==
    /\ last' = [op |-> "analyzePostSEO", input |-> post, error |-> "none",
                result |-> [score |-> SEOScore(post),
                            issues |-> SEOIssues(post),
                            recommendations |-> SEORecommendations(post)]]
    /\ UNCHANGED <<catVars, postVars, commentVars, tagVars, settingsVars, userVars, now, calls, held>>

\* the meta descriptions a post may get: empty, and around 120 and 160 characters
SEOMetaDescriptions ==
    {TextOfLength(n) : n \in {0, 119, 120, 160, 161}}

\* posts around every threshold of the analysis
SEOPosts ==
    [title : {TextOfLength(n) : n \in {0, 29, 30, 60, 61}},
     slug : {<<>>, <<"a", "-", "b">>, <<"a", "_", "b">>},
     excerpt : {NullChars, <<>>, <<"e">>},
     content : {TextOfLength(n) : n \in {0, 299, 300}},
     meta_title : {NullChars, <<"m">>},
     meta_description : {NullChars} \cup SEOMetaDescriptions,
     canonical_url : {NullChars, <<"u">>}]

(* ----------------------------- metadata -------------------------------- *)
\* Date.prototype.toISOString: the text of a time
toISOString(t) == <<"ISO", t>>

\* settings[0]?.site_url || 'https://example.com'
baseUrlOf(settings) ==
    IF getSiteSettingsRow(settings) = Null
       \/ Falsy(settings[getSiteSettingsRow(settings)].site_url)
    THEN <<"https://example.com">>
    ELSE settings[getSiteSettingsRow(settings)].site_url

\* settings[0]?.site_title || 'Blog'
siteTitleOf(settings) ==
    IF getSiteSettingsRow(settings) = Null
       \/ Falsy(settings[getSiteSettingsRow(settings)].site_title)
    THEN <<"Blog">>
    ELSE settings[getSiteSettingsRow(settings)].site_title

\* content.length > 160 ? content.substring(0, 160) + '...' : content
ContentPrefix(content) ==
    IF Len(content) > 160 THEN SubSeq(content, 1, 160) \o <<"...">> ELSE content

\* post.canonical_url || `${baseUrl}/posts/${post.slug}`
CanonicalOf(settings, post) ==
    IF ~Falsy(post.canonical_url) THEN post.canonical_url
    ELSE baseUrlOf(settings) \o <<"/posts/">> \o post.slug

\* a description that passes over the excerpt
MetadataDescriptionNoExcerpt(post) ==
    IF ~Falsy(post.meta_description) THEN post.meta_description
    ELSE ContentPrefix(post.content)

\* post.meta_description || post.excerpt || (prefix of post.content)
MetadataDescription(post) ==
    IF ~Falsy(post.meta_description) THEN post.meta_description
    ELSE IF ~Falsy(post.excerpt) THEN post.excerpt
    ELSE ContentPrefix(post.content)

\* post.published_at?.toISOString() || post.created_at.toISOString()
PublishedTime(post) ==
    IF post.published_at # Null THEN toISOString(post.published_at)
    ELSE toISOString(post.created_at)

PostMetadata(settings, post) ==
    [title |-> IF ~Falsy(post.meta_title) THEN post.meta_title
               ELSE post.title \o <<" | ">> \o siteTitleOf(settings),
     description |-> MetadataDescription(post),
     canonical |-> CanonicalOf(settings, post),
     openGraph |-> [og_title |-> post.title,
                    og_description |-> MetadataDescription(post),
                    og_type |-> "article",
                    og_url |-> CanonicalOf(settings, post),
                    og_site_name |-> siteTitleOf(settings),
                    og_published_time |-> PublishedTime(post),
                    og_modified_time |-> toISOString(post.updated_at)],
     twitter |-> [twitter_card |-> "summary_large_image",
                  twitter_title |-> post.title,
                  twitter_description |-> MetadataDescription(post),
                  twitter_url |-> CanonicalOf(settings, post)]]

generatePostMetadata(post) ==
    /\ last' = [op |-> "generatePostMetadata", input |-> post, error |-> "none",
                result |-> PostMetadata(siteSettings, post)]
    /\ UNCHANGED <<catVars, postVars, commentVars, tagVars, settingsVars, userVars, now, calls, held>>

\* a description that is the content alone
StructuredDescriptionContentOnly(post) == ContentPrefix(post.content)

\* post.excerpt || (prefix of post.content)
StructuredDescription(post) ==
    IF ~Falsy(post.excerpt) THEN post.excerpt ELSE ContentPrefix(post.content)

StructuredData(settings, post) ==
    [context |-> "https://schema.org",
     type |-> "BlogPosting",
     headline |-> post.title,
     description |-> StructuredDescription(post),
     url |-> CanonicalOf(settings, post),
     datePublished |-> PublishedTime(post),
     dateModified |-> toISOString(post.updated_at),
     mainEntityOfPage |-> [type |-> "WebPage", id |-> CanonicalOf(settings, post)],
     publisher |-> [type |-> "Organization",
                    name |-> siteTitleOf(settings),
                    url |-> baseUrlOf(settings)],
     author |-> [type |-> "Person", name |-> "Author"]]

generateStructuredData(post) ==
    /\ last' = [op |-> "generateStructuredData", input |-> post, error |-> "none",
                result |-> StructuredData(siteSettings, post)]
    /\ UNCHANGED <<catVars, postVars, commentVars, tagVars, settingsVars, userVars, now, calls, held>>

\* db.insert(siteSettingsTable).values({...}): a settings row with its site_url
insertSettingsRow(row) ==
    /\ siteSettings' = Insert(siteSettings, nextSettingsId, row)
    /\ nextSettingsId' = nextSettingsId + 1
    /\ last' = [op |-> "insertSettingsRow", error |-> "none"]
    /\ UNCHANGED <<catVars, postVars, commentVars, tagVars, userVars, now, calls, held>>

MetadataSettingsRows ==
    [site_title : {<<>>, <<"T">>},
     site_url : {<<>>, <<"h">>}]

\* a content of 161 characters, the last unlike the rest
LongContent == TextOfLength(160) \o <<"y">>

\* posts with and without each field of the fallback chains
MetadataPosts ==
    [title : {<<"t">>},
     slug : {<<"s">>},
     excerpt : {NullChars, <<>>, <<"e">>},
     content : {<<"c">>, TextOfLength(160), LongContent},
     meta_title : {NullChars, <<>>, <<"m">>},
     meta_description : {NullChars, <<>>, <<"d">>},
     canonical_url : {NullChars, <<"u">>},
     published_at : {Null, 1},
     created_at : {0},
     updated_at : {0}]

(* ------------------------- concurrent requests ------------------------- *)
(* A handler is a sequence of statements on the database; between two      *)
(* awaited statements the runtime serves the other requests.  A call of a  *)
(* client is at one statement (pc) and keeps the handler's local           *)
(* variables; every action below is one awaited statement with the local   *)
(* computation that follows it.                                            *)

otherVars == <<postVars, commentVars, tagVars, settingsVars, userVars, now, last, held>>

\* the call of a client that threw or returned
Done(call, error, result) ==
    [pc |-> "done", op |-> call.op, input |-> call.input,
     error |-> error, result |-> result]

\* the client takes the response
callReturn(c) ==
    /\ calls[c].pc = "done"
    /\ calls' = [calls EXCEPT ![c] = NoCall]
    /\ UNCHANGED <<catVars, otherVars>>

\* updateCategory up to its first statement, getCategoryById(input.id), and
\* the comparison of the new parent with the category
updateCategoryCall(c, input) ==
    LET call == [op |-> "updateCategory", input |-> input]
    IN  /\ calls[c] = NoCall
        /\ calls' = [calls EXCEPT ![c] =
              IF getCategoryById(categories, input.id) = Null
              THEN Done(call, "NotFound", Null)
              ELSE IF input.parent_id # Undefined /\ input.parent_id # Null
              THEN IF input.parent_id = input.id
                   THEN Done(call, "InvalidOperation", Null)
                   ELSE [pc |-> "parent", op |-> call.op, input |-> input]
              ELSE [pc |-> "write", op |-> call.op, input |-> input]]
        /\ UNCHANGED <<catVars, otherVars>>

\* getCategoryById(input.parent_id), then the locals of getCategoryDescendants
updateCategoryParent(c) ==
    /\ calls[c].pc = "parent"
    /\ calls[c].op = "updateCategory"
    /\ calls' = [calls EXCEPT ![c] =
          IF getCategoryById(categories, calls[c].input.parent_id) = Null
          THEN Done(calls[c], "NotFound", Null)
          ELSE [pc |-> "walk", op |-> calls[c].op, input |-> calls[c].input,
                descendants |-> <<>>,
                toProcess |-> <<calls[c].input.id>>,
                processed |-> {}]]
    /\ UNCHANGED <<catVars, otherVars>>

\* a pass of the loop that leaves a processed id at the head of toProcess
WalkIterationNoShift(cats, walk) ==
    LET currentId == Head(walk.toProcess)
        children == DirectChildren(cats, currentId)
    IN  IF currentId \in walk.processed
        THEN walk
        ELSE [walk EXCEPT !.toProcess = Tail(walk.toProcess) \o children,
                          !.processed = walk.processed \cup {currentId},
                          !.descendants = walk.descendants \o children]

\* one pass of the while loop of getCategoryDescendants
WalkIteration(cats, walk) ==
    LET currentId == Head(walk.toProcess)
        children == DirectChildren(cats, currentId)
    IN  IF currentId \in walk.processed
        THEN [walk EXCEPT !.toProcess = Tail(walk.toProcess)]
        ELSE [walk EXCEPT !.toProcess = Tail(walk.toProcess) \o children,
                          !.processed = walk.processed \cup {currentId},
                          !.descendants = walk.descendants \o children]

\* the loop of getCategoryDescendants, a pass at a time; when toProcess is
\* empty the walk returns and updateCategory looks for the new parent in it
getCategoryDescendantsStep(c) ==
    /\ calls[c].pc = "walk"
    /\ calls' = [calls EXCEPT ![c] =
          IF calls[c].toProcess # <<>>
          THEN WalkIteration(categories, calls[c])
          ELSE IF calls[c].input.parent_id \in Range(calls[c].descendants)
          THEN [pc |-> "done", op |-> calls[c].op, input |-> calls[c].input,
                error |-> "InvalidOperation", result |-> Null,
                descendants |-> calls[c].descendants]
          ELSE [pc |-> "write", op |-> calls[c].op, input |-> calls[c].input,
                descendants |-> calls[c].descendants]]
    /\ UNCHANGED <<catVars, otherVars>>

\* db.update(categoriesTable).set(updateData).where(id = input.id).returning():
\* result[0] is undefined when no row has the id
updateCategoryWrite(c) ==
    LET input == calls[c].input
    IN  /\ calls[c].pc = "write"
        /\ calls[c].op = "updateCategory"
        /\ IF input.id \notin DOMAIN categories
           THEN /\ calls' = [calls EXCEPT ![c] = Done(calls[c], "none", Undefined)]
                /\ UNCHANGED categories
           ELSE IF input.slug # UndefinedText /\ SlugTaken(categories, input.slug, input.id)
           THEN /\ calls' = [calls EXCEPT ![c] = Done(calls[c], "Conflict", Null)]
                /\ UNCHANGED categories
           ELSE /\ categories' = [categories EXCEPT
                       ![input.id] = UpdateData(categories[input.id], input, now)]
                /\ calls' = [calls EXCEPT ![c] = Done(calls[c], "none", input.id)]
        /\ UNCHANGED <<nextCategoryId, otherVars>>

\* the category stores of MaxWalkCategoryId rows that interleaved updates
\* leave behind: every parent_id graph, the cyclic ones among them
WalkStores ==
    {[c \in 1 .. MaxWalkCategoryId |->
         [name |-> "n1", slug |-> "s" \o ToString(c), description |-> NullText,
          parent_id |-> parent[c], meta_title |-> NullText,
          meta_description |-> NullText, updated_at |-> 0]] :
       parent \in {f \in [1 .. MaxWalkCategoryId -> {Null} \cup (1 .. MaxWalkCategoryId)] :
                      \A c \in 1 .. MaxWalkCategoryId : f[c] # c}}

\* reparenting requests
ReparentInputs(ids) ==
    [id : ids,
     name : {UndefinedText},
     slug : {UndefinedText},
     description : {UndefinedText},
     parent_id : ids,
     meta_title : {UndefinedText},
     meta_description : {UndefinedText}]

\* deleteCategory up to its first statement, getCategoryById(id).  `before`
\* is the two tables the handler writes, as the call found them: the handler
\* keeps no such copy, the properties of a failed call are stated with it
deleteCategoryCall(c, id) ==
    LET call == [op |-> "deleteCategory", input |-> id]
    IN  /\ calls[c] = NoCall
        /\ calls' = [calls EXCEPT ![c] =
              IF getCategoryById(categories, id) = Null
              THEN Done(call, "NotFound", FALSE)
              ELSE [pc |-> "posts", op |-> call.op, input |-> id,
                    before |-> <<categories, posts>>]]
        /\ UNCHANGED <<catVars, otherVars>>

\* update posts set category_id = null where category_id = id
deleteCategoryPosts(c) ==
    /\ calls[c].pc = "posts"
    /\ posts' = DetachPosts(posts, calls[c].input)
    /\ calls' = [calls EXCEPT ![c].pc = "children"]
    /\ UNCHANGED <<catVars, nextPostId, commentVars, tagVars, settingsVars, userVars,
                   now, last, held>>

\* update categories set parent_id = null where parent_id = id
deleteCategoryChildren(c) ==
    /\ calls[c].pc = "children"
    /\ categories' = DetachChildren(categories, calls[c].input)
    /\ calls' = [calls EXCEPT ![c].pc = "delete"]
    /\ UNCHANGED <<nextCategoryId, otherVars>>

\* delete from categories where id = id; return true
deleteCategoryDelete(c) ==
    /\ calls[c].pc = "delete"
    /\ categories' = Delete(categories, calls[c].input)
    /\ calls' = [calls EXCEPT ![c] = Done(calls[c], "none", TRUE)]
    /\ UNCHANGED <<nextCategoryId, otherVars>>

\* the statement a call is at fails (the database is not reached, the
\* statement is cancelled): execute() rejects, the handler logs and rethrows
statementFails(c) ==
    /\ calls[c].pc \notin {"idle", "done"}
    /\ calls' = [calls EXCEPT ![c] = Done(calls[c], "DatabaseError", Null)]
    /\ UNCHANGED <<catVars, otherVars>>

\* the next category of the stores the races start from: a root of its own slug
RaceCategory(id) ==
    [name |-> "n1", slug |-> "s" \o ToString(id), description |-> UndefinedText,
     parent_id |-> Undefined, meta_title |-> UndefinedText,
     meta_description |-> UndefinedText]

\* the categories of the stores a delete is made in: roots and children of
\* the first category
DeleteFixtureCategories ==
    {[RaceCategory(nextCategoryId) EXCEPT !.parent_id = parent] :
        parent \in IF nextCategoryId = 1 THEN {Undefined} ELSE {Undefined, 1}}

\* createCategory up to the statement that looks for the parent, made when
\* input.parent_id is truthy
createCategoryCall(c, input) ==
    LET call == [op |-> "createCategory", input |-> input]
    IN  /\ calls[c] = NoCall
        /\ calls' = [calls EXCEPT ![c] =
              IF Truthy(input.parent_id)
                 /\ getCategoryById(categories, input.parent_id) = Null
              THEN Done(call, "NotFound", Null)
              ELSE [pc |-> "insert", op |-> call.op, input |-> input]]
        /\ UNCHANGED <<catVars, otherVars>>

\* db.insert(categoriesTable).values({...}).returning()
createCategoryInsert(c) ==
    LET input == calls[c].input
    IN  /\ calls[c].pc = "insert"
        /\ nextCategoryId' = nextCategoryId + 1
        /\ IF SlugTaken(categories, input.slug, Null)
           THEN /\ calls' = [calls EXCEPT ![c] = Done(calls[c], "Conflict", Null)]
                /\ UNCHANGED categories
           ELSE /\ categories' = Insert(categories, nextCategoryId,
                       [name |-> input.name,
                        slug |-> input.slug,
                        description |-> OrNullText(input.description),
                        parent_id |-> OrNull(input.parent_id),
                        meta_title |-> OrNullText(input.meta_title),
                        meta_description |-> OrNullText(input.meta_description),
                        updated_at |-> now])
                /\ calls' = [calls EXCEPT ![c] = Done(calls[c], "none", nextCategoryId)]
        /\ UNCHANGED otherVars

\* the row resetToDefaults writes
DefaultsRow(time) ==
    [site_title |-> defaultSettings.site_title,
     site_description |-> defaultSettings.site_description,
     posts_per_page |-> defaultSettings.posts_per_page,
     comments_enabled |-> defaultSettings.comments_enabled,
     updated_at |-> time]

\* the write of updateSiteSettings or resetToDefaults: an insert when the
\* handler found no row, else an update without WHERE; `row` is the inserted
\* row, `updated` the table with every existing row rewritten
SettingsWrite(c, row, updated) ==
    IF calls[c].existingSettings = Null
    THEN /\ siteSettings' = Insert(siteSettings, nextSettingsId, row)
         /\ nextSettingsId' = nextSettingsId + 1
         /\ calls' = [calls EXCEPT ![c] =
               Done(calls[c], "none", [id |-> nextSettingsId, row |-> row])]
    ELSE /\ siteSettings' = updated
         /\ UNCHANGED nextSettingsId
         /\ calls' = [calls EXCEPT ![c] =
               Done(calls[c], "none", FirstRow(siteSettings'))]

\* updateSiteSettings up to its first statement: await getSiteSettings()
updateSiteSettingsCall(c, input) ==
    /\ calls[c] = NoCall
    /\ calls' = [calls EXCEPT ![c] =
          [pc |-> "updateSettings", op |-> "updateSiteSettings", input |-> input,
           existingSettings |-> getSiteSettingsRow(siteSettings)]]
    /\ UNCHANGED <<catVars, otherVars>>

\* db.insert(siteSettingsTable) or db.update(siteSettingsTable)
updateSiteSettingsWrite(c) ==
    LET patched == [k \in DOMAIN siteSettings |->
                       PatchedSettings(siteSettings[k], calls[c].input, now)]
    IN  /\ calls[c].pc = "updateSettings"
        /\ SettingsWrite(c, CreatedSettings(calls[c].input, now), patched)
        /\ UNCHANGED <<catVars, postVars, commentVars, tagVars, userVars, now, last, held>>

\* resetToDefaults up to its first statement: await getSiteSettings()
resetToDefaultsCall(c) ==
    /\ calls[c] = NoCall
    /\ calls' = [calls EXCEPT ![c] =
          [pc |-> "resetSettings", op |-> "resetToDefaults", input |-> Null,
           existingSettings |-> getSiteSettingsRow(siteSettings)]]
    /\ UNCHANGED <<catVars, otherVars>>

\* db.insert(siteSettingsTable).values(defaultSettings) or
\* db.update(siteSettingsTable).set(defaultSettings)
resetToDefaultsWrite(c) ==
    LET defaults == [k \in DOMAIN siteSettings |-> DefaultsRow(now)]
    IN  /\ calls[c].pc = "resetSettings"
        /\ SettingsWrite(c, DefaultsRow(now), defaults)
        /\ UNCHANGED <<catVars, postVars, commentVars, tagVars, userVars, now, last, held>>

(* -------------------------------- auth --------------------------------- *)
\* 24 * 60 * 60 * 1000 ms: the clock counts days
TokenLifetime == 1

\* the SHA-256 digest of the password in hexadecimal: a text of 64 digits,
\* one for each password
hashPassword(password) == <<"sha256", password>>

verifyPassword(password, hash) == hashPassword(password) = hash

\* btoa(`${header}.${payloadB64}.secret`)
Signature(payload) == <<"secret", payload>>

\* a text that does not split into three parts at the dots
MalformedToken == [parts |-> 1]
\* the null a handler answers with instead of a token, a payload or a user
NullToken == [parts |-> 0]
NullPayload == [userId |-> Null]
NullUser == [id |-> Null]

\* `${header}.${payloadB64}.${signature}`
createToken(payload, time) ==
    LET stamped == [userId |-> payload.userId, email |-> payload.email,
                    role |-> payload.role, exp |-> time + TokenLifetime]
    IN  [parts |-> 3, payload |-> stamped, signature |-> Signature(stamped)]

verifyTokenInternal(token, time) ==
    IF token.parts # 3 THEN NullPayload
    ELSE IF token.payload.exp < time THEN NullPayload
    ELSE IF token.signature # Signature(token.payload) THEN NullPayload
    ELSE token.payload

\* the row without password_hash
UserWithoutPassword(us, id) ==
    [id |-> id, email |-> us[id].email, username |-> us[id].username,
     role |-> us[id].role, is_active |-> us[id].is_active]

\* select ... where email = input.email: userResults[0], or Null
UserByEmail(us, email) ==
    IF \E u \in DOMAIN us : us[u].email = email
    THEN Min({u \in DOMAIN us : us[u].email = email})
    ELSE Null

\* the token a login or a refresh makes for the user
TokenOf(us, id, time) ==
    createToken([userId |-> id, email |-> us[id].email, role |-> us[id].role], time)

loginUser(c, input) ==
    LET user == UserByEmail(users, input.email)
        error == IF user = Null THEN "Invalid email or password"
                 ELSE IF ~users[user].is_active THEN "Account is deactivated"
                 ELSE IF ~verifyPassword(input.password, users[user].password_hash)
                 THEN "Invalid email or password"
                 ELSE "none"
    IN  /\ last' = [op |-> "loginUser", input |-> input, error |-> error,
                    result |-> IF error = "none"
                               THEN [user |-> UserWithoutPassword(users, user),
                                     token |-> TokenOf(users, user, now)]
                               ELSE [user |-> NullUser, token |-> NullToken]]
        /\ held' = IF error = "none"
                   THEN [held EXCEPT ![c].tokens = @ \cup {TokenOf(users, user, now)},
                                     ![c].logins = @ \cup {user}]
                   ELSE held
        /\ UNCHANGED <<catVars, postVars, commentVars, tagVars, settingsVars, userVars,
                       now, calls>>

\* the user verifyToken answers with, or NullUser
VerifiedUser(us, token, time) ==
    LET decoded == verifyTokenInternal(token, time)
    IN  IF decoded = NullPayload THEN NullUser
        ELSE IF decoded.userId \notin DOMAIN us THEN NullUser
        ELSE IF ~us[decoded.userId].is_active THEN NullUser
        ELSE UserWithoutPassword(us, decoded.userId)

verifyToken(c, token) ==
    /\ last' = [op |-> "verifyToken", input |-> token, error |-> "none",
                result |-> VerifiedUser(users, token, now)]
    /\ UNCHANGED <<catVars, postVars, commentVars, tagVars, settingsVars, userVars,
                   now, calls, held>>

\* the token refreshToken answers with, or NullToken: the payload is parsed
\* without verification
RefreshedToken(us, token, time) ==
    IF token.parts # 3 THEN NullToken
    ELSE IF token.payload.userId \notin DOMAIN us THEN NullToken
    ELSE IF ~us[token.payload.userId].is_active THEN NullToken
    ELSE TokenOf(us, token.payload.userId, time)

refreshToken(c, token) ==
    LET newToken == RefreshedToken(users, token, now)
    IN  /\ last' = [op |-> "refreshToken", input |-> token, error |-> "none",
                    result |-> [token |-> newToken]]
        /\ held' = IF newToken = NullToken THEN held
                   ELSE [held EXCEPT ![c].tokens = @ \cup {newToken}]
        /\ UNCHANGED <<catVars, postVars, commentVars, tagVars, settingsVars, userVars,
                       now, calls>>

\* db.insert(usersTable).values({...}) with the password hashed by hashPassword
insertUserRow(input) ==
    /\ ~UserTaken(users, input)
    /\ users' = Insert(users, nextUserId,
            [email |-> input.email, username |-> input.username,
             password_hash |-> hashPassword(input.password),
             role |-> input.role, is_active |-> TRUE])
    /\ nextUserId' = nextUserId + 1
    /\ last' = [op |-> "insertUserRow", input |-> input, error |-> "none"]
    /\ UNCHANGED <<catVars, postVars, commentVars, tagVars, settingsVars, now, calls, held>>

\* updateUser with is_active as the one field of the input
updateUser(input) ==
    /\ IF input.id \in DOMAIN users
       THEN /\ users' = [users EXCEPT ![input.id].is_active = input.is_active]
            /\ last' = [op |-> "updateUser", input |-> input, error |-> "none",
                        result |-> input.id]
       ELSE /\ UNCHANGED users
            /\ last' = [op |-> "updateUser", input |-> input, error |-> "NotFound",
                        result |-> Null]
    /\ UNCHANGED <<catVars, postVars, commentVars, tagVars, settingsVars, nextUserId,
                   now, calls, held>>

AuthUser == [email |-> "e1", username |-> "u1", password |-> "p1", role |-> "author"]

LoginInputs == [email : {"e1"}, password : {"p1", "p2"}]

\* the tokens a client makes up without the secret: a text that is no
\* token, and payloads naming a user, expired or not, with a guessed signature
FabricatedTokens ==
    {MalformedToken} \cup
    {[parts |-> 3, payload |-> payload, signature |-> <<"guess", payload>>] :
        payload \in [userId : 1 .. MaxUserId, email : {"e1"}, role : {"admin"},
                     exp : {0, MaxClock + TokenLifetime}]}

\* the tokens a client can send: those it has received and those it makes up
Presentable(c) == held[c].tokens \cup FabricatedTokens

(* --------------------------- specifications ---------------------------- *)
\* the tree of categories and the posts filed under them
CategoryNext ==
    \/ /\ last = Idle
       /\ nextCategoryId <= MaxCategoryId
       /\ \E input \in CreateCategoryInputs : createCategory(input)
    \/ /\ last = Idle
       /\ \E input \in UpdateCategoryInputs : updateCategory(input)
    \/ /\ last = Idle
       /\ \E id \in 1 .. MaxCategoryId : deleteCategory(id)
    \/ /\ last = Idle
       /\ \E c \in DOMAIN categories : insertPost("t1", "draft", c)
    \/ Return

SpecCategories == Init /\ [][CategoryNext]_vars

\* partial updates of the fields of a category, under a running clock
CategoryFieldNext ==
    \/ /\ last = Idle
       /\ nextCategoryId <= MaxFieldCategoryId
       /\ \E input \in CreateCategoryInputs :
             /\ input.slug # "s3"
             /\ input.parent_id \in {Undefined} \cup (1 .. MaxFieldCategoryId)
             /\ createCategory(input)
    \/ /\ last = Idle
       /\ \E input \in UpdateCategoryFieldInputs : updateCategory(input)
    \/ Tick
    \/ Return

SpecCategoryFields == Init /\ [][CategoryFieldNext]_vars

\* comments on the posts of the store and their moderation
CommentNext ==
    \/ /\ last = Idle
       /\ insertPost("t1", "published", Null)
    \/ /\ last = Idle
       /\ nextCommentId <= MaxCommentId
       /\ \E input \in CreateCommentInputs : createComment(input)
    \/ /\ last = Idle
       /\ \E id \in 1 .. MaxCommentId, status \in CommentStatuses :
             updateCommentStatus([id |-> id, status |-> status])
    \/ /\ last = Idle
       /\ \E id \in 1 .. MaxCommentId : approveComment(id)
    \/ /\ last = Idle
       /\ \E id \in 1 .. MaxCommentId : rejectComment(id)
    \/ /\ last = Idle
       /\ \E id \in 1 .. MaxCommentId : markAsSpam(id)
    \/ /\ last = Idle
       /\ \E id \in 1 .. MaxCommentId : deleteComment(id)
    \/ Return

SpecComments == Init /\ [][CommentNext]_vars

\* the life of a post: a caller creates a post and may publish the post of
\* the answer it holds
PostNext ==
    \/ /\ last = Idle
       /\ \E title \in {"t1", "t2"}, status \in PostStatuses : insertPost(title, status, Null)
    \/ /\ last = Idle
       /\ \E input \in CreatePostInputs : createPost(input)
    \/ /\ last.op \in {"idle", "createPost"}
       /\ \E id \in 1 .. MaxPostId : publishPost(id)
    \/ /\ last = Idle
       /\ \E id \in 1 .. MaxPostId : archivePost(id)
    \/ Return

SpecPosts == Init /\ [][PostNext]_vars

\* the filters of the post search over posts and their tags
SearchNext ==
    \/ /\ last = Idle
       /\ nextPostId <= MaxPostId
       /\ \E row \in SearchPostRows : insertPostRow(row)
    \/ /\ last = Idle
       /\ nextTagId \in SearchTagIds
       /\ createTag([name |-> "g1",
                     slug |-> IF nextTagId = 1 THEN "t1" ELSE "t2",
                     description |-> UndefinedText])
    \/ /\ last = Idle
       /\ \E p \in DOMAIN posts, t \in DOMAIN tags : insertPostTag(p, t)
    \/ /\ last = Idle
       /\ \E input \in SearchFilterInputs : getPosts(input)
    \/ /\ last = Idle
       /\ \E input \in SearchFilterInputs : searchPosts(input)
    \/ Return

SpecSearch == Init /\ [][SearchNext]_vars

\* the pages of the post search over sorted posts
PageNext ==
    \/ /\ last = Idle
       /\ nextPostId <= MaxPagePostId
       /\ \E row \in PagePostRows : insertPostRow(row)
    \/ /\ last = Idle
       /\ \E input \in PageInputs : getPosts(input)
    \/ /\ last = Idle
       /\ \E input \in PageInputs : searchPosts(input)
    \/ Return

SpecPages == Init /\ [][PageNext]_vars

\* tags, the posts that carry them and the deletion of tags
TagNext ==
    \/ /\ last = Idle
       /\ nextTagId <= MaxTagId
       /\ \E input \in CreateTagInputs : createTag(input)
    \/ /\ last = Idle
       /\ insertPost("t1", "published", Null)
    \/ /\ last = Idle
       /\ \E p \in DOMAIN posts, t \in DOMAIN tags : insertPostTag(p, t)
    \/ /\ last = Idle
       /\ \E id \in 1 .. MaxTagId : deleteTag(id)
    \/ Return

SpecTags == Init /\ [][TagNext]_vars

\* the settings of the site, read, updated and reset under a running clock;
\* a caller may send the update it has the answer of a second time
SettingsNext ==
    \/ /\ last = Idle
       /\ getSiteSettings
    \/ /\ last = Idle
       /\ \E input \in UpdateSiteSettingsInputs : updateSiteSettings(input)
    \/ /\ last = Idle
       /\ resetToDefaults
    \/ /\ last.op = "updateSiteSettings"
       /\ updateSiteSettings(last.input)
    \/ Tick
    \/ Return

SpecSettings == Init /\ [][SettingsNext]_vars

\* the ids the scoped feeds are asked for: 2 names no category, tag or user
FeedScopeIds == {1, 2}

\* the feeds of a category, a tag and an author over the posts of the store
FeedScopeNext ==
    \/ /\ last = Idle
       /\ nextUserId <= MaxUserId
       /\ \E input \in CreateUserInputs : createUser(input)
    \/ /\ last = Idle
       /\ \E id \in 1 .. MaxUserId : deleteUser(id)
    \/ /\ last = Idle
       /\ nextCategoryId = 1
       /\ \E input \in CreateCategoryInputs :
             /\ input.slug = "s1"
             /\ input.parent_id = Undefined
             /\ createCategory(input)
    \/ /\ last = Idle
       /\ nextTagId = 1
       /\ \E input \in CreateTagInputs : input.slug = "t1" /\ createTag(input)
    \/ /\ last = Idle
       /\ nextPostId <= MaxPostId
       /\ \E row \in FeedPostRows : insertPostRow(row)
    \/ /\ last = Idle
       /\ \E p \in DOMAIN posts, t \in DOMAIN tags : insertPostTag(p, t)
    \/ /\ last = Idle
       /\ \E id \in FeedScopeIds : generateCategoryRSSFeed(id)
    \/ /\ last = Idle
       /\ \E id \in FeedScopeIds : generateTagRSSFeed(id)
    \/ /\ last = Idle
       /\ \E id \in FeedScopeIds : generateAuthorRSSFeed(id)
    \/ Return

SpecFeedScopes == Init /\ [][FeedScopeNext]_vars

\* the RSS and the Atom feed over posts of many texts
FeedTextNext ==
    \/ /\ last = Idle
       /\ nextUserId = 1
       /\ createUser([email |-> "e1", username |-> "u1", password |-> "p1",
                      role |-> "author"])
    \/ /\ last = Idle
       /\ nextPostId <= MaxPostId
       /\ \E row \in FeedTextPostRows : insertPostRow(row)
    \/ /\ last = Idle
       /\ generateRSSFeed
    \/ /\ last = Idle
       /\ generateAtomFeed
    \/ Return

SpecFeedTexts == Init /\ [][FeedTextNext]_vars

\* the analysis of posts handed in by the caller
SEONext ==
    \/ /\ last = Idle
       /\ \E post \in SEOPosts : analyzePostSEO(post)
    \/ Return

SpecSEO == Init /\ [][SEONext]_vars

\* metadata and structured data of posts handed in by the caller, over the
\* settings table empty or holding its row
MetadataNext ==
    \/ /\ last = Idle
       /\ \/ /\ DOMAIN siteSettings = {}
             /\ \E row \in MetadataSettingsRows : insertSettingsRow(row)
          \/ \E post \in MetadataPosts : generatePostMetadata(post)
          \/ \E post \in MetadataPosts : generateStructuredData(post)
    \/ Return

SpecMetadata == Init /\ [][MetadataNext]_vars

\* updateCategory a statement at a time, over every store of WalkStores
WalkInit ==
    /\ categories \in WalkStores
    /\ nextCategoryId = MaxWalkCategoryId + 1
    /\ posts = <<>>
    /\ nextPostId = 1
    /\ comments = <<>>
    /\ nextCommentId = 1
    /\ tags = <<>>
    /\ nextTagId = 1
    /\ postTags = {}
    /\ siteSettings = <<>>
    /\ nextSettingsId = 1
    /\ users = <<>>
    /\ nextUserId = 1
    /\ now = 0
    /\ last = Idle
    /\ calls = [c \in Clients |-> NoCall]
    /\ held = [c \in Clients |-> NoSession]

OneClient == "c1"

WalkNext ==
    \/ \E input \in ReparentInputs(1 .. MaxWalkCategoryId) :
          updateCategoryCall(OneClient, input)
    \/ updateCategoryParent(OneClient)
    \/ getCategoryDescendantsStep(OneClient)
    \/ updateCategoryWrite(OneClient)
    \/ callReturn(OneClient)

\* the runtime goes on with a handler whose statement has been answered
SpecDescendants ==
    WalkInit /\ [][WalkNext]_vars /\ WF_vars(getCategoryDescendantsStep(OneClient))

\* the categories are created, then two clients reparent them at the same time
UpdateRaceNext ==
    \/ /\ last = Idle
       /\ nextCategoryId <= MaxRaceCategoryId
       /\ \A c \in Clients : calls[c] = NoCall
       /\ createCategory(RaceCategory(nextCategoryId))
    \/ Return
    \/ /\ nextCategoryId > MaxRaceCategoryId
       /\ last = Idle
       /\ \E c \in Clients :
             \/ \E input \in ReparentInputs(1 .. MaxRaceCategoryId) :
                   updateCategoryCall(c, input)
             \/ updateCategoryParent(c)
             \/ getCategoryDescendantsStep(c)
             \/ updateCategoryWrite(c)
             \/ callReturn(c)

SpecUpdateRaces == Init /\ [][UpdateRaceNext]_vars

\* categories and posts are stored, then a client deletes a category, and
\* any of the statements of the delete may fail
DeleteFailureNext ==
    \/ /\ last = Idle
       /\ calls[OneClient] = NoCall
       /\ \/ /\ nextCategoryId <= MaxRaceCategoryId
             /\ \E input \in DeleteFixtureCategories : createCategory(input)
          \/ \E category_id \in DOMAIN categories :
                insertPost("t1", "published", category_id)
    \/ Return
    \/ /\ last = Idle
       /\ \/ \E id \in 1 .. MaxRaceCategoryId : deleteCategoryCall(OneClient, id)
          \/ deleteCategoryPosts(OneClient)
          \/ deleteCategoryChildren(OneClient)
          \/ deleteCategoryDelete(OneClient)
          \/ statementFails(OneClient)
          \/ callReturn(OneClient)

SpecDeleteFailure == Init /\ [][DeleteFailureNext]_vars

\* the category that is deleted while others are put under it
RaceParent == Min(1 .. MaxRaceCategoryId)

\* the categories are created, then the first is deleted while a client
\* creates a category under it or moves another under it
ParentRaceNext ==
    \/ /\ last = Idle
       /\ nextCategoryId <= MaxRaceCategoryId
       /\ \A c \in Clients : calls[c] = NoCall
       /\ createCategory(RaceCategory(nextCategoryId))
    \/ Return
    \/ /\ nextCategoryId > MaxRaceCategoryId
       /\ last = Idle
       /\ \E c \in Clients :
             \/ deleteCategoryCall(c, RaceParent)
             \/ deleteCategoryPosts(c)
             \/ deleteCategoryChildren(c)
             \/ deleteCategoryDelete(c)
             \/ /\ nextCategoryId <= MaxRaceCategoryId + 1
                /\ createCategoryCall(c,
                      [RaceCategory(nextCategoryId) EXCEPT !.parent_id = RaceParent])
             \/ createCategoryInsert(c)
             \/ \E input \in ReparentInputs(1 .. MaxRaceCategoryId) :
                   /\ input.parent_id = RaceParent
                   /\ updateCategoryCall(c, input)
             \/ updateCategoryParent(c)
             \/ getCategoryDescendantsStep(c)
             \/ updateCategoryWrite(c)
             \/ callReturn(c)

SpecParentRaces == Init /\ [][ParentRaceNext]_vars

\* updates of the site title, or of nothing
SettingsRaceInputs ==
    {input \in UpdateSiteSettingsInputs :
        /\ input.site_description = UndefinedText
        /\ input.posts_per_page = Undefined
        /\ input.comments_enabled = UndefinedText}

\* two clients update and reset the settings at the same time, from the
\* empty table on
SettingsRaceNext ==
    \E c \in Clients :
        \/ \E input \in SettingsRaceInputs : updateSiteSettingsCall(c, input)
        \/ updateSiteSettingsWrite(c)
        \/ resetToDefaultsCall(c)
        \/ resetToDefaultsWrite(c)
        \/ callReturn(c)

SpecSettingsRaces == Init /\ [][SettingsRaceNext]_vars

\* a user is created by createUser or stored with a SHA-256 hash, may be
\* deactivated, and a client logs in, verifies and refreshes tokens
AuthNext ==
    \/ /\ last = Idle
       /\ \/ /\ nextUserId <= MaxUserId
             /\ createUser(AuthUser)
          \/ /\ nextUserId <= MaxUserId
             /\ insertUserRow(AuthUser)
          \/ \E id \in DOMAIN users : \E is_active \in BOOLEAN :
                updateUser([id |-> id, is_active |-> is_active])
          \/ \E input \in LoginInputs : loginUser(OneClient, input)
          \/ \E token \in Presentable(OneClient) : verifyToken(OneClient, token)
          \/ \E token \in Presentable(OneClient) : refreshToken(OneClient, token)
          \/ Tick
    \/ /\ last.op = "createUser"
       /\ last.error = "none"
       /\ loginUser(OneClient, [email |-> last.input.email,
                                password |-> last.input.password])
    \/ Return

SpecAuth == Init /\ [][AuthNext]_vars

(* ------------------------- claims: categories -------------------------- *)
RECURSIVE ParentChain(_, _, _)
\* the ids met by following parent_id from c for at most n links
ParentChain(cats, c, n) ==
    IF n = 0 \/ c \notin DOMAIN cats \/ cats[c].parent_id = Null THEN {}
    ELSE {cats[c].parent_id} \cup ParentChain(cats, cats[c].parent_id, n - 1)

\* the ancestors of c: its parent, the parent of its parent, ...
Ancestors(cats, c) == ParentChain(cats, c, Cardinality(DOMAIN cats))

\* a handler call is the step from Idle to its response
Called(op) == last = Idle /\ last'.op = op

\* C1: after any sequence of createCategory, updateCategory and deleteCategory
\* calls, failed or not, no category is reached from itself along parent_id.
ParentGraphAcyclic ==
    \A c \in DOMAIN categories : c \notin Ancestors(categories, c)

\* a reparenting went through in a tree three levels deep
ParentGraphAcyclicWitness ==
    /\ last.op = "updateCategory"
    /\ last.error = "none"
    /\ last.input.parent_id \in DOMAIN categories
    /\ \E c \in DOMAIN categories : Cardinality(Ancestors(categories, c)) >= 2

\* C2: updateCategory(id = A, parent_id = B) on categories A and B fails with
\* InvalidOperation when B = A or B is a descendant of A, and changes no row.
UpdateRejectsCycle ==
    [][(/\ Called("updateCategory")
        /\ last'.input.id \in DOMAIN categories
        /\ last'.input.parent_id \in DOMAIN categories
        /\ \/ last'.input.parent_id = last'.input.id
           \/ last'.input.id \in Ancestors(categories, last'.input.parent_id))
       => (last'.error = "InvalidOperation" /\ categories' = categories)]_vars

\* a reparenting under a grandchild was refused
UpdateRejectsCycleWitness ==
    /\ last.op = "updateCategory"
    /\ last.error = "InvalidOperation"
    /\ last.input.parent_id \in DOMAIN categories
    /\ categories[last.input.parent_id].parent_id \in DOMAIN categories
    /\ categories[categories[last.input.parent_id].parent_id].parent_id = last.input.id

\* C3: a successful deleteCategory(C) returns true, leaves no category C,
\* and every category and every post that pointed at C points at null.
DeleteDetaches ==
    [][(Called("deleteCategory") /\ last'.error = "none")
       => (/\ last'.result = TRUE
           /\ getCategoryById(categories', last'.input) = Null
           /\ \A c \in DOMAIN categories \ {last'.input} :
                categories[c].parent_id = last'.input
                => (c \in DOMAIN categories' /\ categories'[c].parent_id = Null)
           /\ \A p \in DOMAIN posts :
                posts[p].category_id = last'.input
                => (p \in DOMAIN posts' /\ posts'[p].category_id = Null))]_vars

\* a category was deleted; a post (always inserted under a category) has none
\* now, while another post still has its category
DeleteDetachesWitness ==
    /\ last.op = "deleteCategory"
    /\ last.error = "none"
    /\ \E p \in DOMAIN posts : posts[p].category_id = Null
    /\ \E p \in DOMAIN posts : posts[p].category_id \in DOMAIN categories
    /\ \E c \in DOMAIN categories : categories[c].parent_id = Null

RECURSIVE FlattenNodes(_, _)
\* the nodes of a list of trees, each followed by its nested children
FlattenNodes(tree, nodes) ==
    IF nodes = <<>> THEN <<>>
    ELSE <<Head(nodes)>> \o FlattenNodes(tree, tree.children[Head(nodes)])
                         \o FlattenNodes(tree, Tail(nodes))

Flatten(tree) == FlattenNodes(tree, tree.roots)

CreateRejectsMissingParent ==
    [][(/\ Called("createCategory")
        /\ last'.input.parent_id \notin {Undefined, Null}
        /\ last'.input.parent_id \notin DOMAIN categories)
       => (last'.error = "NotFound" /\ categories' = categories)]_vars

\* the input holds nothing but id and parent_id: null
OnlyParentNull(input) ==
    /\ input.parent_id = Null
    /\ input.name = UndefinedText
    /\ input.slug = UndefinedText
    /\ input.description = UndefinedText
    /\ input.meta_title = UndefinedText
    /\ input.meta_description = UndefinedText

\* the field is the input's when the input holds it, the old one otherwise
Patched(given, undefined, new, old) ==
    IF given = undefined THEN new = old ELSE new = given

\* C6: a successful updateCategory sets the fields present in its input and
\* updated_at on the target row and changes nothing else in the table; an
\* update of an existing category with only parent_id: null succeeds.
UpdatePatchesPresentFields ==
    [][Called("updateCategory")
       => LET input == last'.input
              id == input.id
          IN  /\ last'.error = "none"
                 => /\ id \in DOMAIN categories
                    /\ DOMAIN categories' = DOMAIN categories
                    /\ \A c \in DOMAIN categories \ {id} : categories'[c] = categories[c]
                    /\ Patched(input.name, UndefinedText,
                               categories'[id].name, categories[id].name)
                    /\ Patched(input.slug, UndefinedText,
                               categories'[id].slug, categories[id].slug)
                    /\ Patched(input.description, UndefinedText,
                               categories'[id].description, categories[id].description)
                    /\ Patched(input.parent_id, Undefined,
                               categories'[id].parent_id, categories[id].parent_id)
                    /\ Patched(input.meta_title, UndefinedText,
                               categories'[id].meta_title, categories[id].meta_title)
                    /\ Patched(input.meta_description, UndefinedText,
                               categories'[id].meta_description,
                               categories[id].meta_description)
                    /\ categories'[id].updated_at = now
              /\ (id \in DOMAIN categories /\ OnlyParentNull(input))
                 => last'.error = "none"]_vars

\* an update at a later time renamed a category and kept its description,
\* next to another category
UpdatePatchesPresentFieldsWitness ==
    /\ last.op = "updateCategory"
    /\ last.error = "none"
    /\ last.input.name # UndefinedText
    /\ last.input.description = UndefinedText
    /\ categories[last.input.id].description = "x"
    /\ categories[last.input.id].updated_at = now
    /\ \E c \in DOMAIN categories : categories[c].updated_at < now

(* -------------------------- claims: comments --------------------------- *)
\* C7: every comment stored by a successful createComment is pending,
\* whatever the input holds and whatever the store holds.
NewCommentPending ==
    [][(Called("createComment") /\ last'.error = "none")
       => (/\ last'.result \in DOMAIN comments' \ DOMAIN comments
           /\ comments'[last'.result].status = "pending")]_vars

\* a reply was stored from an input that asked for the status approved
NewCommentPendingWitness ==
    /\ last.op = "createComment"
    /\ last.error = "none"
    /\ last.input.status = "approved"
    /\ last.input.parent_id \in DOMAIN comments
    /\ last.result \in DOMAIN comments

\* every comment is on an existing post and replies to an existing comment
CommentReferencesExist ==
    \A c \in DOMAIN comments :
        /\ comments[c].post_id \in DOMAIN posts
        /\ comments[c].parent_id = Null \/ comments[c].parent_id \in DOMAIN comments

\* C8: createComment fails with NotFound and inserts nothing when post_id
\* names no post or a given parent_id names no comment, so that every comment
\* is on an existing post and every non-null parent_id names a comment.
CreateCommentRejectsMissing ==
    /\ [][(/\ Called("createComment")
           /\ \/ last'.input.post_id \notin DOMAIN posts
              \/ /\ last'.input.parent_id \notin {Undefined, Null}
                 /\ last'.input.parent_id \notin DOMAIN comments)
          => (last'.error = "NotFound" /\ comments' = comments)]_vars
    /\ []CommentReferencesExist

\* the status each moderation handler stands for
ModerationStatus(op) ==
    CASE op = "approveComment" -> "approved"
      [] op = "rejectComment" -> "rejected"
      [] op = "markAsSpam" -> "spam"

\* C9: approve, reject and markSpam on an existing comment, whatever its
\* status, succeed and set the status of that comment to approved, rejected
\* and spam.
ModerationSetsStatus ==
    [][(/\ last = Idle
        /\ last'.op \in {"approveComment", "rejectComment", "markAsSpam"}
        /\ last'.input \in DOMAIN comments)
       => (/\ last'.error = "none"
           /\ comments'[last'.input].status = ModerationStatus(last'.op))]_vars

(* ---------------------------- claims: posts ---------------------------- *)
\* C10: publish, called on a post that was created as a draft, leaves that
\* post (the id and the title it was created with) published, with a
\* published_at that is not null.
PublishPublishesDraft ==
    [][(/\ last.op = "createPost"
        /\ last.result.status = "draft"
        /\ last'.op = "publishPost"
        /\ last'.input = last.result.id)
       => (/\ last'.error = "none"
           /\ last'.result.id = last.result.id
           /\ last'.result.title = last.result.title
           /\ last'.result.status = "published"
           /\ last'.result.published_at # Null)]_vars

(* --------------------------- claims: search ---------------------------- *)
\* a search handler has answered
Searched == last.op \in {"getPosts", "searchPosts"}

LowerAll(s) == [i \in DOMAIN s |-> Lower(s[i])]

\* text holds q as a run of characters, letters compared without case
Contains(text, q) ==
    /\ text # NullChars
    /\ \E i \in 1 .. Len(text) + 1 :
          /\ i + Len(q) - 1 <= Len(text)
          /\ LowerAll(SubSeq(text, i, i + Len(q) - 1)) = LowerAll(q)

\* the post p satisfies every filter the input holds
Satisfies(input, p) ==
    /\ input.query # UndefinedChars =>
          \/ Contains(posts[p].title, input.query)
          \/ Contains(posts[p].content, input.query)
          \/ Contains(posts[p].excerpt, input.query)
    /\ input.category_id # Undefined => posts[p].category_id = input.category_id
    /\ input.author_id # Undefined => posts[p].author_id = input.author_id
    /\ input.status # UndefinedText => posts[p].status = input.status
    /\ input.tag_ids \notin {UndefinedIds, <<>>} =>
          \E t \in Range(input.tag_ids) : <<p, t>> \in postTags

NoFilter(input) ==
    /\ input.query = UndefinedChars
    /\ input.category_id = Undefined
    /\ input.author_id = Undefined
    /\ input.status = UndefinedText
    /\ input.tag_ids \in {UndefinedIds, <<>>}

\* C11: the posts a search matches are exactly the posts that satisfy every
\* filter present in the input: total counts them, every returned post is one
\* of them, and without any filter every post matches
SearchMatchesAllFilters ==
    Searched =>
        /\ last.result.pagination.total =
              Cardinality({p \in DOMAIN posts : Satisfies(last.input, p)})
        /\ \A i \in DOMAIN last.result.posts :
              Satisfies(last.input, last.result.posts[i])
        /\ NoFilter(last.input) =>
              last.result.pagination.total = Cardinality(DOMAIN posts)

\* the WHERE condition of the handler that answered, on another input
WhereOf(op, input, p) ==
    IF op = "getPosts" THEN getPostsWhere(posts, postTags, input, p)
    ELSE searchPostsWhere(posts, postTags, input, p)

OnlyTags(input) ==
    /\ input.query = UndefinedChars
    /\ input.category_id = Undefined
    /\ input.author_id = Undefined
    /\ input.status = UndefinedText

\* C12: with tag_ids = [T] every returned post has a junction row (post, T),
\* no post is returned or counted twice and, when the tag is the only filter,
\* every post with such a row is returned; with tag_ids = [] the answer is
\* the one without a tag filter
SearchByTag ==
    Searched =>
        LET input == last.input
            result == last.result
        IN  /\ (input.tag_ids # UndefinedIds /\ Len(input.tag_ids) = 1) =>
                 LET T == input.tag_ids[1]
                 IN  /\ \A i \in DOMAIN result.posts : <<result.posts[i], T>> \in postTags
                     /\ \A i, j \in DOMAIN result.posts :
                            result.posts[i] = result.posts[j] => i = j
                     /\ result.pagination.total = Len(result.posts)
                     /\ OnlyTags(input) =>
                            Range(result.posts) = {p \in DOMAIN posts : <<p, T>> \in postTags}
            /\ input.tag_ids = <<>> =>
                 LET without == [input EXCEPT !.tag_ids = UndefinedIds]
                     matching == {p \in DOMAIN posts : WhereOf(last.op, without, p)}
                 IN  /\ Range(result.posts) = matching
                     /\ result.pagination.total = Cardinality(matching)

\* a search by one tag answers with one of two posts, which carries two tags
SearchByTagWitness ==
    /\ Searched
    /\ last.input.tag_ids = <<1>>
    /\ OnlyTags(last.input)
    /\ Cardinality(DOMAIN posts) = 2
    /\ Len(last.result.posts) = 1
    /\ <<last.result.posts[1], 2>> \in postTags

\* a search with tag_ids = [] has answered with the posts of the store
SearchEmptyTagsWitness ==
    /\ Searched
    /\ last.input.tag_ids = <<>>
    /\ Len(last.result.posts) = 2

\* C13: total_pages is ceil(total / limit), has_next says page < total_pages
\* and has_prev says page > 1; no match gives total_pages = 0 and no next page
PaginationMetadata ==
    Searched =>
        LET pg == last.result.pagination
            N == pg.total
            L == last.input.limit
            p == last.input.page
        IN  /\ pg.total_pages * L >= N
            /\ pg.total_pages > 0 => (pg.total_pages - 1) * L < N
            /\ pg.total_pages >= 0
            /\ pg.has_next <=> p < pg.total_pages
            /\ pg.has_prev <=> p > 1
            /\ N = 0 => pg.total_pages = 0 /\ ~pg.has_next

\* three posts in pages of two: page 2 is the last of two pages
PaginationMetadataWitness ==
    /\ Searched
    /\ last.result.pagination.total = 3
    /\ last.input.limit = 2
    /\ last.input.page = 2
    /\ last.result.pagination.total_pages = 2
    /\ ~last.result.pagination.has_next
    /\ last.result.pagination.has_prev

\* C14: the page returned holds the posts at the positions (p-1)*L+1 ..
\* min(p*L, N) of the matching posts in sorted order: its length is
\* min(L, max(0, N - (p-1)*L)), and a page beyond total_pages is empty
PageWindow ==
    Searched =>
        LET input == last.input
            result == last.result
            matching == {q \in DOMAIN posts : Satisfies(input, q)}
            N == Cardinality(matching)
            L == input.limit
            p == input.page
            rest == IF N - (p - 1) * L > 0 THEN N - (p - 1) * L ELSE 0
            length == IF L < rest THEN L ELSE rest
        IN  /\ Len(result.posts) = length
            /\ p > result.pagination.total_pages => result.posts = <<>>
            /\ \E rows \in [1 .. N -> matching] :
                  /\ Range(rows) = matching
                  /\ Ordered(posts, rows, input.sort_by, input.sort_order)
                  /\ \A k \in 1 .. length : result.posts[k] = rows[(p - 1) * L + k]

\* three posts in pages of two: page 2 holds one post; page 3 holds none
PageWindowWitness ==
    /\ Searched
    /\ last.result.pagination.total = 3
    /\ last.input.limit = 2
    /\ last.input.page = 2
    /\ Len(last.result.posts) = 1

(* ---------------------------- claims: tags ----------------------------- *)
\* C15: deleteTag(T) on an existing tag leaves no junction row with tag_id T
\* and no tag row T, deletes no post and returns true; on an id that names
\* no tag it returns false and changes nothing
DeleteTagRemovesRows ==
    [][Called("deleteTag") =>
          LET T == last'.input
          IN  IF T \in DOMAIN tags
              THEN /\ last'.result = TRUE
                   /\ T \notin DOMAIN tags'
                   /\ \A pt \in postTags' : pt[2] # T
                   /\ posts' = posts
              ELSE /\ last'.result = FALSE
                   /\ tags' = tags
                   /\ postTags' = postTags
                   /\ posts' = posts]_vars

\* a tag is gone after deleteTag returned true, while the posts and the
\* junction rows of the other tag are still there
DeleteTagRemovesRowsWitness ==
    /\ last.op = "deleteTag"
    /\ last.result = TRUE
    /\ last.input \notin DOMAIN tags
    /\ Cardinality(DOMAIN posts) = 2
    /\ Cardinality(postTags) = 2
    /\ \A pt \in postTags : pt[2] # last.input

(* ------------------------ claims: site settings ----------------------- *)
\* the settings a row stores (updated_at is the time of the write)
SettingValues(row) == [f \in SettingFields |-> row[f]]

\* once a write has been made one row exists, and a call answers with it
SettingsSingleton ==
    /\ Cardinality(DOMAIN siteSettings) <= 1
    /\ last.op \in {"updateSiteSettings", "resetToDefaults"} =>
          /\ Cardinality(DOMAIN siteSettings) = 1
          /\ \A k \in DOMAIN siteSettings :
                last.result = [id |-> k, row |-> siteSettings[k]]
    /\ (last.op = "getSiteSettings" /\ DOMAIN siteSettings # {}) =>
          \A k \in DOMAIN siteSettings :
                last.result = [id |-> k, row |-> siteSettings[k]]

InputHolds(input, f) ==
    IF f = "posts_per_page" THEN input[f] # Undefined ELSE input[f] # UndefinedText

\* updateSiteSettings creates the row from the input and the defaults, or
\* changes the fields the input holds and no other
SettingsUpsert ==
    Called("updateSiteSettings") =>
        LET input == last'.input
        IN  \A k \in DOMAIN siteSettings' : \A f \in SettingFields :
                siteSettings'[k][f] =
                    IF InputHolds(input, f) THEN input[f]
                    ELSE IF k \in DOMAIN siteSettings THEN siteSettings[k][f]
                    ELSE defaultSettings[f]

\* the caller makes the update of the answer in flight a second time: the
\* store then holds the values it held after the first
SettingsIdempotent ==
    (/\ last.op = "updateSiteSettings"
     /\ last'.op = "updateSiteSettings"
     /\ last'.input = last.input) =>
        /\ DOMAIN siteSettings' = DOMAIN siteSettings
        /\ \A k \in DOMAIN siteSettings :
              SettingValues(siteSettings'[k]) = SettingValues(siteSettings[k])

\* C16: the settings are one row kept by idempotent upserts: after any calls
\* of updateSiteSettings and resetToDefaults one row exists and every call
\* answers with it; updateSiteSettings creates the row with the defaults for
\* the fields the input leaves out, or else changes the fields of the input
\* only; the same update made twice stores what it stores when made once
SettingsSingletonUpsert ==
    /\ []SettingsSingleton
    /\ [][SettingsUpsert]_vars
    /\ [][SettingsIdempotent]_vars

(* ---------------------------- claims: feeds ---------------------------- *)
ScopedFeedOps == {"generateCategoryRSSFeed", "generateTagRSSFeed", "generateAuthorRSSFeed"}

\* a published post is filed under the category, carries the tag or has the author
InScope(op, id, p) ==
    /\ posts[p].status = "published"
    /\ IF op = "generateCategoryRSSFeed" THEN posts[p].category_id = id
       ELSE IF op = "generateTagRSSFeed" THEN <<p, id>> \in postTags
       ELSE posts[p].author_id = id

\* C17: a feed of a category, a tag or an author fails with a NotFound error
\* and makes no feed when no published post is in the scope (posts that are
\* drafts or archived do not count), and succeeds when one is
ScopedFeedNotFound ==
    last.op \in ScopedFeedOps =>
        IF \E p \in DOMAIN posts : InScope(last.op, last.input, p)
        THEN last.error = "none" /\ last.result # <<>>
        ELSE last.error = "NotFound" /\ last.result = <<>>

\* the characters of the escaped form of one character
EscapedChar(c) ==
    IF c = "&" THEN <<"&", "a", "m", "p", ";">>
    ELSE IF c = "<" THEN <<"&", "l", "t", ";">>
    ELSE IF c = ">" THEN <<"&", "g", "t", ";">>
    ELSE IF c = "\"" THEN <<"&", "q", "u", "o", "t", ";">>
    ELSE IF c = "'" THEN <<"&", "#", "3", "9", ";">>
    ELSE <<c>>

RECURSIVE EscapedOnce(_)
\* every character of the text escaped, once
EscapedOnce(text) ==
    IF text = <<>> THEN <<>> ELSE EscapedChar(Head(text)) \o EscapedOnce(Tail(text))

\* the tokens run stand in the feed, one after the other
HasRun(feed, run) ==
    \E i \in 1 .. Len(feed) :
        i + Len(run) - 1 <= Len(feed) /\ SubSeq(feed, i, i + Len(run) - 1) = run

\* an & of the feed starts an entity
StartsEntity(feed, i) ==
    \E c \in {"&", "<", ">", "\"", "'"} :
        LET e == EscapedChar(c)
        IN  i + Len(e) - 1 <= Len(feed) /\ SubSeq(feed, i, i + Len(e) - 1) = e

\* no <, > or " and no & but that of an entity among the characters of the feed
NoRawCharacter(feed) ==
    \A i \in DOMAIN feed :
        /\ feed[i] \notin {"<", ">", "\""}
        /\ feed[i] = "&" => StartsEntity(feed, i)

\* the title of every published post stands in the feed escaped once
TitlesEscapedOnce(feed) ==
    \A p \in DOMAIN posts : posts[p].status = "published" =>
        HasRun(feed, <<"<title>">> \o EscapedOnce(posts[p].title) \o <<"</title>">>)

\* C18: the RSS and the Atom feed hold no <, >, & or " of a title or of a
\* content of a published post unescaped, and & is escaped once (the title
\* A <b>&amp;</b> B stands as A &lt;b&gt;&amp;amp;&lt;/b&gt; B)
FeedEscapesText ==
    last.op \in {"generateRSSFeed", "generateAtomFeed"} =>
        /\ NoRawCharacter(last.result)
        /\ TitlesEscapedOnce(last.result)

Missing(text) == text = NullChars \/ Len(text) = 0

\* the penalties the specification lists, for a post
ListedPenalties(post) ==
    (IF Missing(post.title) THEN 20
     ELSE IF Len(post.title) < 30 THEN 5
     ELSE IF Len(post.title) > 60 THEN 3 ELSE 0)
    + (IF Missing(post.content) THEN 25
       ELSE IF Len(post.content) < 300 THEN 10 ELSE 0)
    + (IF Missing(post.slug) THEN 15
       ELSE IF \E i \in DOMAIN post.slug : post.slug[i] = "_" THEN 2 ELSE 0)
    + (IF Missing(post.meta_description)
       THEN (IF Missing(post.excerpt) THEN 15 ELSE 0)
       ELSE IF Len(post.meta_description) > 160 THEN 8 ELSE 0)
    + (IF Missing(post.meta_title) THEN 5 ELSE 0)

\* the two penalties of the analysis the list leaves out: a post without a
\* meta description that has an excerpt, and a meta description under 120
OtherPenalties(post) ==
    IF Missing(post.meta_description)
    THEN (IF Missing(post.excerpt) THEN 0 ELSE 5)
    ELSE IF Len(post.meta_description) < 120 THEN 3 ELSE 0

\* C20 as stated: the score is 100 less the listed penalties, and not under 0
SEOScoreListedPenalties ==
    last.op = "analyzePostSEO" =>
        LET expected == 100 - ListedPenalties(last.input)
        IN  /\ last.result.score = IF expected < 0 THEN 0 ELSE expected
            /\ last.result.score \in 0 .. 100

\* C20, amended: the score is 100 less the listed penalties and less 5 for a
\* missing meta description when the post has an excerpt and 3 for a meta
\* description under 120 characters, not under 0: it lies in 0..100
SEOScoreAllPenalties ==
    last.op = "analyzePostSEO" =>
        LET expected == 100 - ListedPenalties(last.input) - OtherPenalties(last.input)
        IN  /\ last.result.score = IF expected < 0 THEN 0 ELSE expected
            /\ last.result.score \in 0 .. 100

\* a post with every defect is analysed: title, content and slug missing, no
\* meta description, no excerpt, no meta title
SEOScoreAllPenaltiesWitness ==
    /\ last.op = "analyzePostSEO"
    /\ ListedPenalties(last.input) = 80
    /\ last.result.score = 20

(* -------------------------- claims: metadata --------------------------- *)
\* a nullable text is set: neither null nor empty
IsSet(text) == text # NullChars /\ Len(text) > 0

\* site_url and site_title of the settings, or their defaults
SiteUrl ==
    IF \E k \in DOMAIN siteSettings : IsSet(siteSettings[k].site_url)
    THEN siteSettings[Min(DOMAIN siteSettings)].site_url
    ELSE <<"https://example.com">>

SiteTitle ==
    IF \E k \in DOMAIN siteSettings : IsSet(siteSettings[k].site_title)
    THEN siteSettings[Min(DOMAIN siteSettings)].site_title
    ELSE <<"Blog">>

\* the prefix of a content: the content, or its first 160 characters and "..."
PrefixOf(content) ==
    IF Len(content) <= 160 THEN content
    ELSE [i \in 1 .. 161 |-> IF i <= 160 THEN content[i] ELSE "..."]

\* meta_description, else excerpt, else the prefix of the content
DescriptionChain(post) ==
    IF IsSet(post.meta_description) THEN post.meta_description
    ELSE IF IsSet(post.excerpt) THEN post.excerpt
    ELSE PrefixOf(post.content)

\* canonical_url, else siteUrl + "/posts/" + slug
CanonicalChain(post) ==
    IF IsSet(post.canonical_url) THEN post.canonical_url
    ELSE SiteUrl \o <<"/posts/">> \o post.slug

\* meta_title, else the title of the post
TitleChain(post) ==
    IF IsSet(post.meta_title) THEN post.meta_title ELSE post.title

\* description and canonical URL of the metadata and of its two maps
DescriptionAndCanonicalChains ==
    LET post == last.input
        m == last.result
    IN  /\ m.description = DescriptionChain(post)
        /\ m.canonical = CanonicalChain(post)
        /\ m.openGraph.og_description = DescriptionChain(post)
        /\ m.openGraph.og_url = CanonicalChain(post)
        /\ m.twitter.twitter_description = DescriptionChain(post)
        /\ m.twitter.twitter_url = CanonicalChain(post)

\* C21 as stated: the metadata of a post has the title, the description and
\* the canonical URL of the three fallback chains, and its Open Graph and
\* Twitter maps carry the values of the same chains
MetadataFallbacks ==
    last.op = "generatePostMetadata" =>
        /\ DescriptionAndCanonicalChains
        /\ last.result.title = TitleChain(last.input)
        /\ last.result.openGraph.og_title = TitleChain(last.input)
        /\ last.result.twitter.twitter_title = TitleChain(last.input)

\* C21, amended: the title is meta_title if set, else the post title, " | "
\* and the site title; description and canonical URL follow their chains and
\* the two maps carry them; the titles of the two maps are the post title
MetadataFallbacksSiteTitle ==
    last.op = "generatePostMetadata" =>
        /\ DescriptionAndCanonicalChains
        /\ last.result.title =
              IF IsSet(last.input.meta_title) THEN last.input.meta_title
              ELSE last.input.title \o <<" | ">> \o SiteTitle
        /\ last.result.openGraph.og_title = last.input.title
        /\ last.result.twitter.twitter_title = last.input.title

\* the metadata of a post with an excerpt, a long content and no meta
\* field, under settings with a site title and a site URL
MetadataFallbacksSiteTitleWitness ==
    /\ last.op = "generatePostMetadata"
    /\ DOMAIN siteSettings # {}
    /\ SiteTitle = <<"T">>
    /\ SiteUrl = <<"h">>
    /\ last.input.meta_title = NullChars
    /\ last.input.meta_description = NullChars
    /\ last.input.canonical_url = NullChars
    /\ last.input.excerpt = <<"e">>
    /\ last.result.description = <<"e">>
    /\ last.result.title = <<"t", " | ", "T">>
    /\ last.result.canonical = <<"h", "/posts/", "s">>

\* C22 as stated: the description of the structured data of a post is the
\* description its metadata has
StructuredDescriptionAsMetadata ==
    last.op = "generateStructuredData" =>
        last.result.description = PostMetadata(siteSettings, last.input).description

\* C22, amended: the description of the structured data is the excerpt if
\* set, else the prefix of the content; it is the description of the
\* metadata for every post whose meta_description is not set
StructuredDescriptionExcerptFirst ==
    last.op = "generateStructuredData" =>
        /\ last.result.description =
              IF IsSet(last.input.excerpt) THEN last.input.excerpt
              ELSE PrefixOf(last.input.content)
        /\ ~IsSet(last.input.meta_description) =>
              last.result.description
                  = PostMetadata(siteSettings, last.input).description

\* the structured data of a post with a meta description, no excerpt and a
\* content of more than 160 characters
StructuredDescriptionExcerptFirstWitness ==
    /\ last.op = "generateStructuredData"
    /\ last.input.meta_description = <<"d">>
    /\ last.input.excerpt = NullChars
    /\ Len(last.input.content) = 161
    /\ Len(last.result.description) = 161
    /\ last.result.description[161] = "..."

(* ----------------------- claims: concurrent requests -------------------- *)
\* the categories reached from t through child links
Reachable(cats, t) == {c \in DOMAIN cats : t \in Ancestors(cats, c)}

\* the walk of a call has returned
WalkReturned(c) ==
    calls[c].pc \in {"write", "done"} /\ "descendants" \in DOMAIN calls[c]

WalkReturnsReachable ==
    \A c \in Clients :
        WalkReturned(c) =>
            Range(calls[c].descendants) = Reachable(categories, calls[c].input.id)

\* C23: the walk over the descendants of a category comes to an end in every
\* store, cyclic or not, and returns the categories reached from the category
\* through child links
DescendantWalkTerminates ==
    /\ \A c \in Clients : (calls[c].pc = "walk") ~> (calls[c].pc # "walk")
    /\ []WalkReturnsReachable

\* a walk has returned the two other categories of a cycle of three, and the
\* category itself
DescendantWalkTerminatesWitness ==
    \E c \in Clients :
        /\ WalkReturned(c)
        /\ calls[c].input.id \in Range(calls[c].descendants)
        /\ Cardinality(Range(calls[c].descendants)) = 3

\* C24: with the statements of concurrent updateCategory calls interleaved in
\* any order, no category is reached from itself along parent_id
ConcurrentUpdatesAcyclic ==
    \A c \in DOMAIN categories : c \notin Ancestors(categories, c)

\* the call of client c fails in this step
Fails(c, op) ==
    /\ calls[c].pc \notin {"idle", "done"}
    /\ calls[c].op = op
    /\ calls'[c].pc = "done"
    /\ calls'[c].error # "none"

\* C25: a deleteCategory that fails leaves the categories and the posts as
\* the call found them: none has been detached from a category that is
\* still there
DeleteFailureLeavesStore ==
    [][\A c \in Clients :
          (Fails(c, "deleteCategory") /\ "before" \in DOMAIN calls[c])
              => <<categories', posts'>> = calls[c].before]_vars

\* no call is at a statement
Quiet == \A c \in Clients : calls[c].pc \in {"idle", "done"}

\* C26: once a deleteCategory and the createCategory and updateCategory calls
\* interleaved with it have ended, every parent_id that is not null is the
\* id of a category
ParentsExistAfterRaces ==
    Quiet => \A c \in DOMAIN categories :
                categories[c].parent_id # Null
                    => categories[c].parent_id \in DOMAIN categories

\* C27: with updateSiteSettings and resetToDefaults calls interleaved in any
\* order from the empty table on, the settings table never holds two rows
SettingsRacesOneRow == Cardinality(DOMAIN siteSettings) <= 1

(* ----------------------- claims: the two post lists -------------------- *)
\* the posts the WHERE condition of the other handler selects for the input
\* of the answer in flight
OtherMatching ==
    {p \in DOMAIN posts :
        IF last.op = "getPosts"
        THEN searchPostsWhere(posts, postTags, last.input, p)
        ELSE getPostsWhere(posts, postTags, last.input, p)}

AcceptedTokenNeedsLogin ==
    (last.op = "verifyToken" /\ last.result # NullUser) =>
        last.result.id \in held[OneClient].logins

\* C30: loginUser with the email and the password a user has just been
\* created with by createUser succeeds and answers with that user and a token
LoginAfterCreateUser ==
    [][(/\ last.op = "createUser"
        /\ last.error = "none"
        /\ last'.op = "loginUser"
        /\ last'.input.email = last.input.email
        /\ last'.input.password = last.input.password)
       => (/\ last'.error = "none"
           /\ last'.result.user.id = last.result
           /\ last'.result.token # NullToken)]_vars

====
